---- MODULE Spec2Model ----
(***************************************************************************)
(* Hold & booking engine of the ticket-booking backend: the holds,         *)
(* ticket_inventory, bookings and booking_items tables, the hold service   *)
(* (createOrUpdateHolds, processHeartbeat, releaseHolds, releaseAllHolds,  *)
(* cleanupExpiredHolds), the booking service (processBooking) and the      *)
(* passage of time.                                                        *)
(*                                                                         *)
(* Time is counted in minutes since 00:00 UTC of day 0.  The server is one *)
(* Node.js process with one synchronous better-sqlite3 connection, so a    *)
(* service function runs to completion before anything else happens: a     *)
(* call is one step (pc "returned"), which leaves its arguments, its       *)
(* result and the tables it started from on view until the caller has its  *)
(* answer (pc "idle").                                                     *)
(***************************************************************************)
EXTENDS Integers, Sequences, FiniteSets, TLC

VARIABLES
    now,            \* the wall clock, in minutes
    inventory,      \* ticket_inventory: <<concert_id, tier>> -> row
    holds,          \* holds: set of rows
    nextHoldId,     \* stands for uuidv4(): the next fresh hold id
    bookings,       \* bookings: sequence of rows, in insertion order
    booking_items,  \* booking_items: sequence of rows, in rowid order
    pc,             \* "idle" | "returned"
    call,           \* the service call in progress: operation and arguments
    ret,            \* what the call returned
    txn,            \* the transaction the call ran in, if any
    before,         \* the tables as they were when the call began
    cleanupInterval,\* the cleanup job's timer, or none
    timers,         \* how many interval timers the event loop holds
    console,        \* the last line the cleanup job logged
    uncaught,       \* the error that left start(), or none
    clients,        \* the availability stream's clients: concert and response
    written         \* the last message written to each response

vars == <<now, inventory, holds, nextHoldId, bookings, booking_items, pc, call, ret, txn,
          before, cleanupInterval, timers, console, uncaught, clients, written>>

\* the state of the process outside the database
server == <<cleanupInterval, timers, console, uncaught, clients, written>>

db == <<inventory, holds, nextHoldId, bookings, booking_items>>

----------------------------------------------------------------------------
(* Bounds of the model *)

\* minutes the clock may advance past StartTime
MaxElapsed == 11

\* hold rows ever inserted
MaxHoldIds == 2

\* bookings ever inserted
MaxBookings == 1

\* the checkout stores at most this many holds in all
MaxCheckoutHoldIds == 3

----------------------------------------------------------------------------
(* Configuration *)

\* HOLD_CONFIG, in minutes
holdDurationMin == 10

inactivityTimeoutMin == 3

gracePeriodMin == 1

hardCapMin == 15

MAX_TICKETS_PER_TIER == 10

MAX_TICKETS_PER_ORDER == 20

TicketTier == {"VIP", "FRONT_ROW", "GA"}

\* TICKET_TIERS[tier].price, in cents
TICKET_TIERS == [t \in TicketTier |->
    [price |-> CASE t = "VIP" -> 10000 [] t = "FRONT_ROW" -> 5000 [] OTHER -> 1000]]

\* The seeded concert with the smallest inventory, and no other concert.
SEED_CONCERTS == [c1 |-> [VIP |-> 2, FRONT_ROW |-> 3, GA |-> 5]]

SeededIds == DOMAIN SEED_CONCERTS

\* seed(): one ticket_inventory row per concert and tier, nothing sold
SeedInventory == [k \in SeededIds \X TicketTier |->
    [concert_id |-> k[1], tier |-> k[2],
     total_quantity |-> SEED_CONCERTS[k[1]][k[2]], sold_quantity |-> 0]]

----------------------------------------------------------------------------
(* Timestamps as the texts the code stores and compares *)

MinutesPerDay == 24 * 60

\* The clock starts late in the evening of day 0, a minute more than a hold
\* duration before midnight.
StartTime == MinutesPerDay - (holdDurationMin + 1)

\* Date.prototype.toISOString(): "YYYY-MM-DDTHH:MM:SS.sssZ" as <<date, "T", time of day>>
toISOString(t) == <<t \div MinutesPerDay, "T", t % MinutesPerDay>>

\* SQLite datetime('now'): "YYYY-MM-DD HH:MM:SS" as <<date, " ", time of day>>
datetimeNow(t) == <<t \div MinutesPerDay, " ", t % MinutesPerDay>>

\* new Date(text).getTime() of a text written by toISOString
getTime(text) == text[1] * MinutesPerDay + text[3]

\* the byte a separator character compares as
CharCode(ch) == IF ch = "T" THEN 84 ELSE 32

\* a > b for two TEXT values under SQLite's BINARY collation: byte by byte, left to
\* right (the date and the time of day are fixed-width digit fields)
TextGreater(a, b) ==
    \/ a[1] > b[1]
    \/ /\ a[1] = b[1]
       /\ \/ CharCode(a[2]) > CharCode(b[2])
          \/ /\ CharCode(a[2]) = CharCode(b[2])
             /\ a[3] > b[3]

\* the WHERE clause expires_at > datetime('now')
NotExpiredSql(row, t) == TextGreater(row.expires_at, datetimeNow(t))

\* the WHERE clause expires_at <= datetime('now')
ExpiredSql(row, t) == ~TextGreater(row.expires_at, datetimeNow(t))

----------------------------------------------------------------------------
(* Rows and result sets *)

\* what an operation answers when it has no message to give
Undefined == "undefined"

\* the null of a timestamp text
Null == <<>>

RECURSIVE SumQuantity(_)
SumQuantity(rows) ==
    IF rows = {} THEN 0
    ELSE LET r == CHOOSE x \in rows : TRUE
         IN r.quantity + SumQuantity(rows \ {r})

\* a result set in rowid order (rows are inserted with increasing ids)
RECURSIVE InRowOrder(_)
InRowOrder(rows) ==
    IF rows = {} THEN <<>>
    ELSE LET r == CHOOSE x \in rows : \A y \in rows : x.id <= y.id
         IN <<r>> \o InRowOrder(rows \ {r})

rowToHold(row) ==
    [id |-> row.id, sessionId |-> row.session_id, concertId |-> row.concert_id,
     tier |-> row.tier, quantity |-> row.quantity, createdAt |-> row.created_at,
     expiresAt |-> row.expires_at, lastActivityAt |-> row.last_activity_at]

MapRowToHold(rowSeq) == [i \in 1..Len(rowSeq) |-> rowToHold(rowSeq[i])]

\* SELECT COALESCE(SUM(quantity), 0) FROM holds
\*   WHERE concert_id = ? AND tier = ? AND expires_at > datetime('now')
HeldQuantity(H, concertId, tier, t) ==
    SumQuantity({h \in H : h.concert_id = concertId /\ h.tier = tier /\ NotExpiredSql(h, t)})

\* A variant of getAvailableQuantity that forgets what is held.
getAvailableQuantityUnheld(inv, H, concertId, tier, t) ==
    IF <<concertId, tier>> \notin DOMAIN inv THEN 0
    ELSE inv[<<concertId, tier>>].total_quantity - inv[<<concertId, tier>>].sold_quantity

getAvailableQuantity(inv, H, concertId, tier, t) ==
    IF <<concertId, tier>> \notin DOMAIN inv THEN 0
    ELSE inv[<<concertId, tier>>].total_quantity
         - inv[<<concertId, tier>>].sold_quantity
         - HeldQuantity(H, concertId, tier, t)

\* SELECT * FROM holds WHERE session_id = ? AND concert_id = ? AND expires_at > datetime('now')
ActiveRows(H, sessionId, concertId, t) ==
    {h \in H : h.session_id = sessionId /\ h.concert_id = concertId /\ NotExpiredSql(h, t)}

getHoldsForConcert(H, sessionId, concertId, t) ==
    MapRowToHold(InRowOrder(ActiveRows(H, sessionId, concertId, t)))

----------------------------------------------------------------------------
(* database.withTransaction and the locks SQLite takes *)

\* db.transaction(fn)() opens the transaction with a plain BEGIN, which takes no
\* lock; db.transaction(fn).immediate() would open it with BEGIN IMMEDIATE.
\* statements are the kinds ("read", "write") of the statements fn ran, in order.
withTransaction(statements) == [begin |-> "BEGIN", statements |-> statements]

NoTransaction == [begin |-> "none", statements |-> <<>>]

\* The lock the connection holds when statement i of the transaction starts: a
\* deferred transaction holds nothing until its first statement, a read takes the
\* shared lock, the first write takes the write (RESERVED) lock.
LockBefore(tx, i) ==
    IF tx.begin = "BEGIN IMMEDIATE" THEN "RESERVED"
    ELSE IF \E j \in 1..(i - 1) : tx.statements[j] = "write" THEN "RESERVED"
    ELSE IF i > 1 THEN "SHARED"
    ELSE "UNLOCKED"

----------------------------------------------------------------------------
(* holdService.createOrUpdateHolds *)

Selection(tier, quantity) == [tier |-> tier, quantity |-> quantity]

RECURSIVE SumSelections(_)
SumSelections(selections) ==
    IF selections = <<>> THEN 0
    ELSE Head(selections).quantity + SumSelections(Tail(selections))

\* A variant of ExistingHoldRows that binds the session and the concert the wrong
\* way round.
ExistingHoldRowsMiskeyed(H, sessionId, concertId, tier) ==
    {h \in H : h.session_id = concertId /\ h.concert_id = sessionId /\ h.tier = tier}

\* A variant of ExistingHoldRows that forgets the tier.
ExistingHoldRowsOfAnyTier(H, sessionId, concertId, tier) ==
    {h \in H : h.session_id = sessionId /\ h.concert_id = concertId}

\* SELECT * FROM holds WHERE session_id = ? AND concert_id = ? AND tier = ?
\* (no expiry filter), .get(): the first row or undefined
ExistingHoldRows(H, sessionId, concertId, tier) ==
    {h \in H : h.session_id = sessionId /\ h.concert_id = concertId /\ h.tier = tier}

\* A variant of HoldSelectionStep that treats a quantity of 0 as any other quantity.
HoldSelectionStepStoringZero(acc, inv, sessionId, concertId, selection, t) ==
    LET existing == ExistingHoldRows(acc.holds, sessionId, concertId, selection.tier)
        existingHold == InRowOrder(existing)[1]
        currentlyHeld == IF existing = {} THEN 0 ELSE existingHold.quantity
        additionalNeeded == selection.quantity - currentlyHeld
        expiresAt == t + holdDurationMin
        \* the hold query, and the two queries of getAvailableQuantity when more is needed
        reads == IF additionalNeeded > 0 THEN <<"read", "read", "read">> ELSE <<"read">>
    IN  IF additionalNeeded > 0
                /\ additionalNeeded > getAvailableQuantity(inv, acc.holds, concertId, selection.tier, t)
        THEN [acc EXCEPT !.unavailable = Append(acc.unavailable,
                                Selection(selection.tier, selection.quantity)),
                         !.statements = acc.statements \o <<"read", "read", "read">>]
        ELSE IF existing # {}
        THEN LET updated == [existingHold EXCEPT !.quantity = selection.quantity,
                                                 !.expires_at = toISOString(expiresAt),
                                                 !.last_activity_at = toISOString(t)]
             IN [acc EXCEPT
                   !.holds = {IF h.id = existingHold.id
                              THEN [h EXCEPT !.quantity = selection.quantity,
                                             !.expires_at = toISOString(expiresAt),
                                             !.last_activity_at = toISOString(t)]
                              ELSE h : h \in acc.holds},
                   !.holdResults = Append(acc.holdResults, rowToHold(updated)),
                   !.statements = acc.statements \o reads \o <<"write">>]
        ELSE LET inserted == [id |-> acc.nextHoldId, session_id |-> sessionId,
                              concert_id |-> concertId, tier |-> selection.tier,
                              quantity |-> selection.quantity,
                              created_at |-> toISOString(t),
                              expires_at |-> toISOString(expiresAt),
                              last_activity_at |-> toISOString(t)]
             IN [acc EXCEPT
                   !.holds = acc.holds \cup {inserted},
                   !.nextHoldId = acc.nextHoldId + 1,
                   !.holdResults = Append(acc.holdResults, rowToHold(inserted)),
                   !.statements = acc.statements \o reads \o <<"write">>]

\* One pass of the for-loop over the selections.  acc carries the holds table, the
\* next fresh id, the two result lists and the kinds of the statements run so far
\* from one iteration to the next.
HoldSelectionStep(acc, inv, sessionId, concertId, selection, t) ==
    LET existing == ExistingHoldRows(acc.holds, sessionId, concertId, selection.tier)
        existingHold == InRowOrder(existing)[1]
        currentlyHeld == IF existing = {} THEN 0 ELSE existingHold.quantity
        additionalNeeded == selection.quantity - currentlyHeld
        expiresAt == t + holdDurationMin
        \* the hold query, and the two queries of getAvailableQuantity when more is needed
        reads == IF additionalNeeded > 0 THEN <<"read", "read", "read">> ELSE <<"read">>
    IN  IF selection.quantity = 0
        THEN [acc EXCEPT !.holds = acc.holds \ existing,
                         !.statements = acc.statements \o <<"write">>]
        ELSE IF additionalNeeded > 0
                /\ additionalNeeded > getAvailableQuantity(inv, acc.holds, concertId, selection.tier, t)
        THEN [acc EXCEPT !.unavailable = Append(acc.unavailable,
                                Selection(selection.tier, selection.quantity)),
                         !.statements = acc.statements \o <<"read", "read", "read">>]
        ELSE IF existing # {}
        THEN LET updated == [existingHold EXCEPT !.quantity = selection.quantity,
                                                 !.expires_at = toISOString(expiresAt),
                                                 !.last_activity_at = toISOString(t)]
             IN [acc EXCEPT
                   !.holds = {IF h.id = existingHold.id
                              THEN [h EXCEPT !.quantity = selection.quantity,
                                             !.expires_at = toISOString(expiresAt),
                                             !.last_activity_at = toISOString(t)]
                              ELSE h : h \in acc.holds},
                   !.holdResults = Append(acc.holdResults, rowToHold(updated)),
                   !.statements = acc.statements \o reads \o <<"write">>]
        ELSE LET inserted == [id |-> acc.nextHoldId, session_id |-> sessionId,
                              concert_id |-> concertId, tier |-> selection.tier,
                              quantity |-> selection.quantity,
                              created_at |-> toISOString(t),
                              expires_at |-> toISOString(expiresAt),
                              last_activity_at |-> toISOString(t)]
             IN [acc EXCEPT
                   !.holds = acc.holds \cup {inserted},
                   !.nextHoldId = acc.nextHoldId + 1,
                   !.holdResults = Append(acc.holdResults, rowToHold(inserted)),
                   !.statements = acc.statements \o reads \o <<"write">>]

RECURSIVE HoldSelectionLoop(_, _, _, _, _, _)
HoldSelectionLoop(acc, inv, sessionId, concertId, selections, t) ==
    IF selections = <<>> THEN acc
    ELSE HoldSelectionLoop(
            HoldSelectionStep(acc, inv, sessionId, concertId, Head(selections), t),
            inv, sessionId, concertId, Tail(selections), t)

\* A variant of ValidateSelections without the per-order cap.
ValidateSelectionsPerTier(selections) ==
    IF \E i \in 1..Len(selections) : selections[i].quantity > MAX_TICKETS_PER_TIER
    THEN "Maximum 10 tickets per tier allowed"
    ELSE Undefined

\* the validation in front of the transaction: the rejection message, or Undefined
ValidateSelections(selections) ==
    IF \E i \in 1..Len(selections) : selections[i].quantity > MAX_TICKETS_PER_TIER
    THEN "Maximum 10 tickets per tier allowed"
    ELSE IF SumSelections(selections) > MAX_TICKETS_PER_ORDER
    THEN "Maximum 20 tickets per order allowed"
    ELSE Undefined

\* A variant of createOrUpdateHolds that drops the caller's hold of a tier it rejects.
createOrUpdateHoldsDroppingRejected(inv, H, nextId, sessionId, concertId, selections, t) ==
    LET rejected == ValidateSelections(selections)
        acc == HoldSelectionLoop(
                  [holds |-> H, nextHoldId |-> nextId, unavailable |-> <<>>,
                   holdResults |-> <<>>, statements |-> <<>>],
                  inv, sessionId, concertId, selections, t)
        rejectedTiers == {acc.unavailable[i].tier : i \in DOMAIN acc.unavailable}
        kept == {h \in acc.holds : ~(/\ h.session_id = sessionId
                                     /\ h.concert_id = concertId
                                     /\ h.tier \in rejectedTiers)}
    IN  IF rejected # Undefined
        THEN [holds |-> H, nextHoldId |-> nextId, txn |-> NoTransaction,
              result |-> [success |-> FALSE, holds |-> <<>>, message |-> rejected]]
        ELSE IF Len(acc.unavailable) > 0
        THEN [holds |-> kept, nextHoldId |-> acc.nextHoldId,
              txn |-> withTransaction(acc.statements),
              result |-> [success |-> FALSE, holds |-> acc.holdResults,
                          message |-> "Some tickets are no longer available",
                          unavailable |-> acc.unavailable]]
        ELSE [holds |-> acc.holds, nextHoldId |-> acc.nextHoldId,
              txn |-> withTransaction(acc.statements),
              result |-> [success |-> TRUE, holds |-> acc.holdResults]]

\* A variant of createOrUpdateHolds that applies no tier when it rejects one.
createOrUpdateHoldsAllOrNothing(inv, H, nextId, sessionId, concertId, selections, t) ==
    LET rejected == ValidateSelections(selections)
        acc == HoldSelectionLoop(
                  [holds |-> H, nextHoldId |-> nextId, unavailable |-> <<>>,
                   holdResults |-> <<>>, statements |-> <<>>],
                  inv, sessionId, concertId, selections, t)
    IN  IF rejected # Undefined
        THEN [holds |-> H, nextHoldId |-> nextId, txn |-> NoTransaction,
              result |-> [success |-> FALSE, holds |-> <<>>, message |-> rejected]]
        ELSE IF Len(acc.unavailable) > 0
        THEN [holds |-> H, nextHoldId |-> nextId,
              txn |-> withTransaction(acc.statements),
              result |-> [success |-> FALSE, holds |-> acc.holdResults,
                          message |-> "Some tickets are no longer available",
                          unavailable |-> acc.unavailable]]
        ELSE [holds |-> acc.holds, nextHoldId |-> acc.nextHoldId,
              txn |-> withTransaction(acc.statements),
              result |-> [success |-> TRUE, holds |-> acc.holdResults]]

\* The whole call: the tables it leaves and the value it returns.
createOrUpdateHolds(inv, H, nextId, sessionId, concertId, selections, t) ==
    LET rejected == ValidateSelections(selections)
        acc == HoldSelectionLoop(
                  [holds |-> H, nextHoldId |-> nextId, unavailable |-> <<>>,
                   holdResults |-> <<>>, statements |-> <<>>],
                  inv, sessionId, concertId, selections, t)
    IN  IF rejected # Undefined
        THEN [holds |-> H, nextHoldId |-> nextId, txn |-> NoTransaction,
              result |-> [success |-> FALSE, holds |-> <<>>, message |-> rejected]]
        ELSE IF Len(acc.unavailable) > 0
        THEN [holds |-> acc.holds, nextHoldId |-> acc.nextHoldId,
              txn |-> withTransaction(acc.statements),
              result |-> [success |-> FALSE, holds |-> acc.holdResults,
                          message |-> "Some tickets are no longer available",
                          unavailable |-> acc.unavailable]]
        ELSE [holds |-> acc.holds, nextHoldId |-> acc.nextHoldId,
              txn |-> withTransaction(acc.statements),
              result |-> [success |-> TRUE, holds |-> acc.holdResults]]

----------------------------------------------------------------------------
(* holdService.processHeartbeat, releaseHolds, releaseAllHolds, cleanupExpiredHolds *)

\* holds.reduce((oldest, h) => new Date(h.created_at) < new Date(oldest.created_at) ? h : oldest)
RECURSIVE OldestHold(_, _)
OldestHold(oldest, rest) ==
    IF rest = <<>> THEN oldest
    ELSE OldestHold(IF getTime(Head(rest).created_at) < getTime(oldest.created_at)
                    THEN Head(rest) ELSE oldest,
                    Tail(rest))

\* the expiry the extending branches compute, clamped to the hard cap
HeartbeatExpiry(rows, isTabVisible, t) ==
    LET newExpiresAt == IF ~isTabVisible THEN t + gracePeriodMin ELSE t + holdDurationMin
        oldestHold == OldestHold(Head(rows), Tail(rows))
        hardCapEnd == getTime(oldestHold.created_at) + hardCapMin
    IN  IF newExpiresAt > hardCapEnd THEN hardCapEnd ELSE newExpiresAt

\* A variant of processHeartbeat whose UPDATE writes only to the rows its SELECT found.
processHeartbeatOfSelectedRows(H, sessionId, concertId, lastActivityAt, isTabVisible, t) ==
    LET rows == InRowOrder(ActiveRows(H, sessionId, concertId, t))
        timeSinceActivity == t - lastActivityAt
        newExpiresAt == HeartbeatExpiry(rows, isTabVisible, t)
        \* UPDATE holds SET expires_at = ?, last_activity_at = ?
        \*   WHERE session_id = ? AND concert_id = ?
        updated == {IF h \in ActiveRows(H, sessionId, concertId, t)
                    THEN [h EXCEPT !.expires_at = toISOString(newExpiresAt),
                                   !.last_activity_at = toISOString(t)]
                    ELSE h : h \in H}
        updatedHolds == InRowOrder({h \in updated :
                            h.session_id = sessionId /\ h.concert_id = concertId})
    IN  IF Len(rows) = 0
        THEN [holds |-> H, txn |-> withTransaction(<<"read">>),
              result |-> [success |-> FALSE, holds |-> <<>>, expiresAt |-> Null,
                          message |-> "No active holds found"]]
        ELSE IF isTabVisible /\ timeSinceActivity > inactivityTimeoutMin
        THEN [holds |-> H, txn |-> withTransaction(<<"read">>),
              result |-> [success |-> TRUE, holds |-> MapRowToHold(rows),
                          expiresAt |-> rows[1].expires_at,
                          message |-> "Inactivity detected - hold not extended"]]
        ELSE [holds |-> updated, txn |-> withTransaction(<<"read", "write", "read">>),
              result |-> [success |-> TRUE, holds |-> MapRowToHold(updatedHolds),
                          expiresAt |-> toISOString(newExpiresAt)]]

\* A variant of processHeartbeat whose inactivity branch still writes last_activity_at.
processHeartbeatStampingInactivity(H, sessionId, concertId, lastActivityAt, isTabVisible, t) ==
    LET rows == InRowOrder(ActiveRows(H, sessionId, concertId, t))
        timeSinceActivity == t - lastActivityAt
        newExpiresAt == HeartbeatExpiry(rows, isTabVisible, t)
        \* UPDATE holds SET expires_at = ?, last_activity_at = ?
        \*   WHERE session_id = ? AND concert_id = ?
        updated == {IF h.session_id = sessionId /\ h.concert_id = concertId
                    THEN [h EXCEPT !.expires_at = toISOString(newExpiresAt),
                                   !.last_activity_at = toISOString(t)]
                    ELSE h : h \in H}
        updatedHolds == InRowOrder({h \in updated :
                            h.session_id = sessionId /\ h.concert_id = concertId})
    IN  IF Len(rows) = 0
        THEN [holds |-> H, txn |-> withTransaction(<<"read">>),
              result |-> [success |-> FALSE, holds |-> <<>>, expiresAt |-> Null,
                          message |-> "No active holds found"]]
        ELSE IF isTabVisible /\ timeSinceActivity > inactivityTimeoutMin
        THEN [holds |-> {IF h.session_id = sessionId /\ h.concert_id = concertId
                         THEN [h EXCEPT !.last_activity_at = toISOString(t)]
                         ELSE h : h \in H},
              txn |-> withTransaction(<<"read", "write">>),
              result |-> [success |-> TRUE, holds |-> MapRowToHold(rows),
                          expiresAt |-> rows[1].expires_at,
                          message |-> "Inactivity detected - hold not extended"]]
        ELSE [holds |-> updated, txn |-> withTransaction(<<"read", "write", "read">>),
              result |-> [success |-> TRUE, holds |-> MapRowToHold(updatedHolds),
                          expiresAt |-> toISOString(newExpiresAt)]]

\* lastActivityAt is the Date the caller passed, in minutes
processHeartbeat(H, sessionId, concertId, lastActivityAt, isTabVisible, t) ==
    LET rows == InRowOrder(ActiveRows(H, sessionId, concertId, t))
        timeSinceActivity == t - lastActivityAt
        newExpiresAt == HeartbeatExpiry(rows, isTabVisible, t)
        \* UPDATE holds SET expires_at = ?, last_activity_at = ?
        \*   WHERE session_id = ? AND concert_id = ?
        updated == {IF h.session_id = sessionId /\ h.concert_id = concertId
                    THEN [h EXCEPT !.expires_at = toISOString(newExpiresAt),
                                   !.last_activity_at = toISOString(t)]
                    ELSE h : h \in H}
        updatedHolds == InRowOrder({h \in updated :
                            h.session_id = sessionId /\ h.concert_id = concertId})
    IN  IF Len(rows) = 0
        THEN [holds |-> H, txn |-> withTransaction(<<"read">>),
              result |-> [success |-> FALSE, holds |-> <<>>, expiresAt |-> Null,
                          message |-> "No active holds found"]]
        ELSE IF isTabVisible /\ timeSinceActivity > inactivityTimeoutMin
        THEN [holds |-> H, txn |-> withTransaction(<<"read">>),
              result |-> [success |-> TRUE, holds |-> MapRowToHold(rows),
                          expiresAt |-> rows[1].expires_at,
                          message |-> "Inactivity detected - hold not extended"]]
        ELSE [holds |-> updated, txn |-> withTransaction(<<"read", "write", "read">>),
              result |-> [success |-> TRUE, holds |-> MapRowToHold(updatedHolds),
                          expiresAt |-> toISOString(newExpiresAt)]]

\* A variant of releaseHolds that releases the concert's holds of every session.
releaseHoldsOfConcert(H, sessionId, concertId) == {h \in H : h.concert_id # concertId}

\* A variant of releaseHolds that forgets the concert.
releaseHoldsOfSession(H, sessionId, concertId) == {h \in H : h.session_id # sessionId}

\* DELETE FROM holds WHERE session_id = ? AND concert_id = ?
releaseHolds(H, sessionId, concertId) ==
    {h \in H : ~(h.session_id = sessionId /\ h.concert_id = concertId)}

\* DELETE FROM holds WHERE session_id = ?
releaseAllHolds(H, sessionId) == {h \in H : h.session_id # sessionId}

\* A variant of cleanupExpiredHolds that takes a hold to run out a hold duration
\* after it was created.
cleanupExpiredHoldsByCreation(H, t) ==
    [holds |-> {h \in H : getTime(h.created_at) + holdDurationMin > t},
     result |-> Cardinality({h \in H : getTime(h.created_at) + holdDurationMin <= t})]

\* DELETE FROM holds WHERE expires_at <= datetime('now'); returns result.changes
cleanupExpiredHolds(H, t) ==
    [holds |-> {h \in H : ~ExpiredSql(h, t)},
     result |-> Cardinality({h \in H : ExpiredSql(h, t)})]

----------------------------------------------------------------------------
(* bookingService.processBooking *)

\* new Map(holds.map((h) => [h.tier, h])).get(tier): the last hold of that tier
HasHoldByTier(holdSeq, tier) == \E i \in 1..Len(holdSeq) : holdSeq[i].tier = tier

HoldByTier(holdSeq, tier) ==
    LET at == {i \in 1..Len(holdSeq) : holdSeq[i].tier = tier}
    IN  holdSeq[CHOOSE i \in at : \A j \in at : j <= i]

\* the first loop: the message of the first selection that fails, or Undefined
RECURSIVE VerifyHolds(_, _)
VerifyHolds(holdSeq, selections) ==
    IF selections = <<>> THEN Undefined
    ELSE LET selection == Head(selections)
             hold == HoldByTier(holdSeq, selection.tier)
         IN  IF selection.quantity = 0 THEN VerifyHolds(holdSeq, Tail(selections))
             ELSE IF ~HasHoldByTier(holdSeq, selection.tier) THEN "No hold found"
             ELSE IF hold.quantity < selection.quantity THEN "Hold is too small"
             ELSE VerifyHolds(holdSeq, Tail(selections))

\* A variant of InventoryShortfall that forgets what is sold.
InventoryShortfallOfTotal(inv, concertId, selection) ==
    LET key == <<concertId, selection.tier>>
    IN  IF key \notin DOMAIN inv THEN "Invalid ticket tier"
        ELSE IF inv[key].total_quantity < selection.quantity
        THEN "Not enough tickets available"
        ELSE Undefined

\* one pass of the second loop, on total_quantity - sold_quantity alone: the
\* message it fails with, or Undefined
InventoryShortfall(inv, concertId, selection) ==
    LET key == <<concertId, selection.tier>>
    IN  IF key \notin DOMAIN inv THEN "Invalid ticket tier"
        ELSE IF inv[key].total_quantity - inv[key].sold_quantity < selection.quantity
        THEN "Not enough tickets available"
        ELSE Undefined

\* the second loop: the message of the first selection that fails, or Undefined
RECURSIVE VerifyInventory(_, _, _)
VerifyInventory(inv, concertId, selections) ==
    IF selections = <<>> THEN Undefined
    ELSE LET selection == Head(selections)
             shortfall == InventoryShortfall(inv, concertId, selection)
         IN  IF selection.quantity = 0 THEN VerifyInventory(inv, concertId, Tail(selections))
             ELSE IF shortfall # Undefined THEN shortfall
             ELSE VerifyInventory(inv, concertId, Tail(selections))

\* bookingItems: one item per non-zero selection, in the order of the selections
RECURSIVE BookingItems(_)
BookingItems(selections) ==
    IF selections = <<>> THEN <<>>
    ELSE LET selection == Head(selections)
             price == TICKET_TIERS[selection.tier].price
         IN  IF selection.quantity = 0 THEN BookingItems(Tail(selections))
             ELSE <<[tier |-> selection.tier, quantity |-> selection.quantity,
                     pricePerTicket |-> price,
                     subtotal |-> price * selection.quantity]>>
                  \o BookingItems(Tail(selections))

\* A variant of SumSubtotals that adds up the prices instead of the subtotals.
RECURSIVE SumPricesPerTicket(_)
SumPricesPerTicket(items) ==
    IF items = <<>> THEN 0
    ELSE Head(items).pricePerTicket + SumPricesPerTicket(Tail(items))

RECURSIVE SumSubtotals(_)
SumSubtotals(items) ==
    IF items = <<>> THEN 0 ELSE Head(items).subtotal + SumSubtotals(Tail(items))

\* A variant of UpdateInventory that takes what is bought off sold_quantity.
RECURSIVE UpdateInventoryTakingOff(_, _, _)
UpdateInventoryTakingOff(inv, concertId, items) ==
    IF items = <<>> THEN inv
    ELSE LET key == <<concertId, Head(items).tier>>
         IN  UpdateInventoryTakingOff(
                IF key \in DOMAIN inv
                THEN [inv EXCEPT ![key].sold_quantity = @ - Head(items).quantity]
                ELSE inv,
                concertId, Tail(items))

\* UPDATE ticket_inventory SET sold_quantity = sold_quantity + ? WHERE concert_id = ? AND tier = ?
\* once per booking item
RECURSIVE UpdateInventory(_, _, _)
UpdateInventory(inv, concertId, items) ==
    IF items = <<>> THEN inv
    ELSE LET key == <<concertId, Head(items).tier>>
         IN  UpdateInventory(
                IF key \in DOMAIN inv
                THEN [inv EXCEPT ![key].sold_quantity = @ + Head(items).quantity]
                ELSE inv,
                concertId, Tail(items))

\* paymentSuccess is what simulatePayment() returned
\* the three failures: a hold missing or too small, no headroom in the inventory, and
\* the payment declined
HoldFailure(message) == [success |-> FALSE, message |-> message, retryAllowed |-> FALSE]

InventoryFailure(message) == [success |-> FALSE, message |-> message, retryAllowed |-> FALSE]

\* A variant of PaymentFailure that does not invite a retry.
PaymentFailureWithoutRetry ==
    [success |-> FALSE, message |-> "Payment declined", retryAllowed |-> FALSE]

PaymentFailure == [success |-> FALSE, message |-> "Payment declined", retryAllowed |-> TRUE]

\* A variant of processBooking that stores a booking for a declined payment too.
processBookingRecordingDeclines(inv, H, B, BI, sessionId, concertId, selections, paymentSuccess, t) ==
    LET held == getHoldsForConcert(H, sessionId, concertId, t)
        noHold == VerifyHolds(held, selections)
        noInventory == VerifyInventory(inv, concertId, selections)
        bookingId == Len(B) + 1
        bookingItems == BookingItems(selections)
        totalAmount == SumSubtotals(bookingItems)
        bookingRow == [id |-> bookingId, session_id |-> sessionId,
                       concert_id |-> concertId, total_amount |-> totalAmount,
                       status |-> "CONFIRMED", created_at |-> toISOString(t),
                       confirmed_at |-> toISOString(t)]
        itemRows == [i \in 1..Len(bookingItems) |->
                       [booking_id |-> bookingId, tier |-> bookingItems[i].tier,
                        quantity |-> bookingItems[i].quantity,
                        price_per_ticket |-> bookingItems[i].pricePerTicket,
                        subtotal |-> bookingItems[i].subtotal]]
        unchanged == [inventory |-> inv, holds |-> H, bookings |-> B, booking_items |-> BI]
    IN  IF noHold # Undefined
        THEN unchanged @@
             [txn |-> withTransaction(<<"read">>), payment |-> "not asked",
              result |-> HoldFailure(noHold)]
        ELSE IF noInventory # Undefined
        THEN unchanged @@
             [txn |-> withTransaction(<<"read", "read">>), payment |-> "not asked",
              result |-> InventoryFailure(noInventory)]
        ELSE IF ~paymentSuccess
        THEN [unchanged EXCEPT
                !.bookings = Append(B, [bookingRow EXCEPT !.status = "FAILED",
                                                          !.confirmed_at = Null])] @@
             [txn |-> withTransaction(<<"read", "read", "write">>), payment |-> "declined",
              result |-> PaymentFailure]
        ELSE [inventory |-> UpdateInventory(inv, concertId, bookingItems),
              holds |-> releaseHolds(H, sessionId, concertId),
              bookings |-> Append(B, bookingRow),
              booking_items |-> BI \o itemRows,
              txn |-> withTransaction(<<"read", "read", "write", "write", "write", "write">>),
              payment |-> "approved",
              result |-> [success |-> TRUE,
                          booking |-> [id |-> bookingId, sessionId |-> sessionId,
                                       concertId |-> concertId,
                                       totalAmount |-> totalAmount,
                                       status |-> "CONFIRMED",
                                       createdAt |-> toISOString(t),
                                       confirmedAt |-> toISOString(t),
                                       items |-> bookingItems],
                          message |-> "Payment successful"]]

\* The whole call: the tables it leaves, the value it returns, and what
\* simulatePayment() answered if the call came to ask it.
processBooking(inv, H, B, BI, sessionId, concertId, selections, paymentSuccess, t) ==
    LET held == getHoldsForConcert(H, sessionId, concertId, t)
        noHold == VerifyHolds(held, selections)
        noInventory == VerifyInventory(inv, concertId, selections)
        bookingId == Len(B) + 1
        bookingItems == BookingItems(selections)
        totalAmount == SumSubtotals(bookingItems)
        bookingRow == [id |-> bookingId, session_id |-> sessionId,
                       concert_id |-> concertId, total_amount |-> totalAmount,
                       status |-> "CONFIRMED", created_at |-> toISOString(t),
                       confirmed_at |-> toISOString(t)]
        itemRows == [i \in 1..Len(bookingItems) |->
                       [booking_id |-> bookingId, tier |-> bookingItems[i].tier,
                        quantity |-> bookingItems[i].quantity,
                        price_per_ticket |-> bookingItems[i].pricePerTicket,
                        subtotal |-> bookingItems[i].subtotal]]
        unchanged == [inventory |-> inv, holds |-> H, bookings |-> B, booking_items |-> BI]
    IN  IF noHold # Undefined
        THEN unchanged @@
             [txn |-> withTransaction(<<"read">>), payment |-> "not asked",
              result |-> HoldFailure(noHold)]
        ELSE IF noInventory # Undefined
        THEN unchanged @@
             [txn |-> withTransaction(<<"read", "read">>), payment |-> "not asked",
              result |-> InventoryFailure(noInventory)]
        ELSE IF ~paymentSuccess
        THEN unchanged @@
             [txn |-> withTransaction(<<"read", "read">>), payment |-> "declined",
              result |-> PaymentFailure]
        ELSE [inventory |-> UpdateInventory(inv, concertId, bookingItems),
              holds |-> releaseHolds(H, sessionId, concertId),
              bookings |-> Append(B, bookingRow),
              booking_items |-> BI \o itemRows,
              txn |-> withTransaction(<<"read", "read", "write", "write", "write", "write">>),
              payment |-> "approved",
              result |-> [success |-> TRUE,
                          booking |-> [id |-> bookingId, sessionId |-> sessionId,
                                       concertId |-> concertId,
                                       totalAmount |-> totalAmount,
                                       status |-> "CONFIRMED",
                                       createdAt |-> toISOString(t),
                                       confirmedAt |-> toISOString(t),
                                       items |-> bookingItems],
                          message |-> "Payment successful"]]

----------------------------------------------------------------------------
(* The calls the model makes *)

SessionIds == {"s1", "s2"}

ConcertIds == SeededIds

RequestQuantities == {0, 2, 3}

\* one tier
OneSelection == {<<Selection("GA", q)>> : q \in RequestQuantities}

\* two tiers: VIP has two tickets in all
TwoSelections ==
    {<<Selection("VIP", 2), Selection("GA", 3)>>, <<Selection("VIP", 3), Selection("GA", 2)>>}

\* over the per-tier cap, and over the per-order cap with every tier within its cap;
\* each with a selection the inventory could serve
OverTheCaps ==
    {<<Selection("GA", MAX_TICKETS_PER_TIER + 1), Selection("VIP", 2)>>,
     <<Selection("VIP", MAX_TICKETS_PER_TIER), Selection("GA", MAX_TICKETS_PER_TIER),
       Selection("FRONT_ROW", 1)>>}

\* one tier named twice in a call: first fewer, then more
SameTierTwice == {<<Selection("GA", 2), Selection("GA", 3)>>}

HoldSelections == OneSelection \cup TwoSelections \cup OverTheCaps \cup SameTierTwice

\* what POST /payment sends for a session's holds, and what POST /checkout lets
\* through: part of what is held, a tier alone, a tier twice
BookingSelections ==
    OneSelection \cup
    {<<Selection("VIP", 2)>>, <<Selection("VIP", 2), Selection("GA", 3)>>,
     <<Selection("GA", 3), Selection("GA", 3)>>}

\* the :concertId of DELETE /api/holds/:concertId is not looked up: a concert that
\* is seeded, or one that is not
ReleasedConcertIds == ConcertIds \cup {"c2"}

\* minutes since the client last saw activity, as the heartbeat reports it
IdleMinutes == {0, inactivityTimeoutMin + 1}

\* the clock is read again when a hold duration from now first overshoots the hard
\* cap of a hold taken at the start, when that hold runs out, or a minute later
TickMinutes == {hardCapMin - holdDurationMin + 1, holdDurationMin, holdDurationMin + 1}

NoCall == [op |-> "none"]

NoRet == [op |-> "none"]

\* let cleanupInterval = null
NoInterval == "null"

NoError == "none"

\* nothing written to a response yet
NoMessage == [type |-> "none"]

\* the open connections of the availability stream
Responses == {"res1"}

Tables == [inventory |-> inventory, holds |-> holds, nextHoldId |-> nextHoldId,
           bookings |-> bookings, booking_items |-> booking_items]

Init ==
    /\ now = StartTime
    /\ inventory = SeedInventory
    /\ holds = {}
    /\ nextHoldId = 1
    /\ bookings = <<>>
    /\ booking_items = <<>>
    /\ pc = "idle"
    /\ call = NoCall
    /\ ret = NoRet
    /\ txn = NoTransaction
    /\ before = Tables
    /\ cleanupInterval = "Timeout"
    /\ timers = 1
    /\ console = "Starting hold cleanup job"
    /\ uncaught = NoError
    /\ clients = {}
    /\ written = [res \in Responses |-> NoMessage]

\* time passes between two calls
Tick(minutes) ==
    /\ pc = "idle"
    /\ now + minutes <= StartTime + MaxElapsed
    /\ now' = now + minutes
    /\ UNCHANGED <<db, pc, call, ret, txn, before, server>>

\* what every call does besides its own work: it runs to completion, and the model
\* keeps its arguments and the tables it started from
Called(c) ==
    /\ pc = "idle"
    /\ pc' = "returned"
    /\ call' = c
    /\ before' = Tables
    /\ now' = now
    /\ UNCHANGED server

CreateOrUpdateHolds(sessionId, concertId, selections) ==
    LET r == createOrUpdateHolds(inventory, holds, nextHoldId, sessionId, concertId,
                                 selections, now)
    IN  /\ r.nextHoldId <= MaxHoldIds + 1
        /\ Called([op |-> "createOrUpdateHolds", sessionId |-> sessionId,
                   concertId |-> concertId, selections |-> selections])
        /\ holds' = r.holds
        /\ nextHoldId' = r.nextHoldId
        /\ ret' = r.result
        /\ txn' = r.txn
        /\ UNCHANGED <<inventory, bookings, booking_items>>

ProcessHeartbeat(sessionId, concertId, idle, isTabVisible) ==
    LET r == processHeartbeat(holds, sessionId, concertId, now - idle, isTabVisible, now)
    IN  /\ Called([op |-> "processHeartbeat", sessionId |-> sessionId,
                   concertId |-> concertId, lastActivityAt |-> now - idle,
                   isTabVisible |-> isTabVisible])
        /\ holds' = r.holds
        /\ ret' = r.result
        /\ txn' = r.txn
        /\ UNCHANGED <<inventory, nextHoldId, bookings, booking_items>>

ReleaseHolds(sessionId, concertId) ==
    /\ Called([op |-> "releaseHolds", sessionId |-> sessionId, concertId |-> concertId])
    /\ holds' = releaseHolds(holds, sessionId, concertId)
    /\ ret' = NoRet
    /\ UNCHANGED <<inventory, nextHoldId, bookings, booking_items, txn>>

ReleaseAllHolds(sessionId) ==
    /\ Called([op |-> "releaseAllHolds", sessionId |-> sessionId])
    /\ holds' = releaseAllHolds(holds, sessionId)
    /\ ret' = NoRet
    /\ UNCHANGED <<inventory, nextHoldId, bookings, booking_items, txn>>

CleanupExpiredHolds ==
    LET r == cleanupExpiredHolds(holds, now)
    IN  /\ Called([op |-> "cleanupExpiredHolds"])
        /\ holds' = r.holds
        /\ ret' = [changes |-> r.result]
        /\ UNCHANGED <<inventory, nextHoldId, bookings, booking_items, txn>>

\* simulatePayment() is Math.random() > PAYMENT_FAILURE_RATE: either outcome, and
\* a decline once MaxBookings bookings exist
ProcessBooking(sessionId, concertId, selections, paymentSuccess) ==
    LET r == processBooking(inventory, holds, bookings, booking_items, sessionId,
                            concertId, selections, paymentSuccess, now)
    IN  /\ paymentSuccess => Len(bookings) < MaxBookings
        /\ Called([op |-> "processBooking", sessionId |-> sessionId,
                   concertId |-> concertId, selections |-> selections,
                   simulatePayment |-> r.payment])
        /\ inventory' = r.inventory
        /\ holds' = r.holds
        /\ bookings' = r.bookings
        /\ booking_items' = r.booking_items
        /\ ret' = r.result
        /\ txn' = r.txn
        /\ UNCHANGED nextHoldId

\* the caller has its answer
Return ==
    /\ pc = "returned"
    /\ pc' = "idle"
    /\ call' = NoCall
    /\ ret' = NoRet
    /\ txn' = NoTransaction
    /\ before' = Tables
    /\ UNCHANGED <<now, db, server>>

Next ==
    \/ \E minutes \in TickMinutes : Tick(minutes)
    \/ \E s \in SessionIds, c \in ConcertIds, sel \in HoldSelections :
         CreateOrUpdateHolds(s, c, sel)
    \/ \E s \in SessionIds, c \in ConcertIds, idle \in IdleMinutes, v \in BOOLEAN :
         ProcessHeartbeat(s, c, idle, v)
    \/ \E s \in SessionIds, c \in ReleasedConcertIds : ReleaseHolds(s, c)
    \/ \E s \in SessionIds : ReleaseAllHolds(s)
    \/ CleanupExpiredHolds
    \/ \E s \in SessionIds, c \in ConcertIds, sel \in BookingSelections,
          paymentSuccess \in BOOLEAN :
         ProcessBooking(s, c, sel, paymentSuccess)
    \/ Return

Spec == Init /\ [][Next]_vars

----------------------------------------------------------------------------
(* The server process: the catalogue reads, the cleanup job and the         *)
(* availability stream                                                      *)

\* ticket_inventory rows come back in rowid order: seed() inserts the tiers of a
\* concert in the order of its inventory record
InventoryRowOrder == <<"VIP", "FRONT_ROW", "GA">>

getInventory(inv, H, concertId, t) ==
    LET IsRow(tier) == <<concertId, tier>> \in DOMAIN inv
        rows == SelectSeq(InventoryRowOrder, IsRow)
    IN  [i \in 1..Len(rows) |->
            LET row == inv[<<concertId, rows[i]>>]
                held == HeldQuantity(H, concertId, rows[i], t)
            IN  [concertId |-> row.concert_id,
                 tier |-> row.tier,
                 totalQuantity |-> row.total_quantity,
                 availableQuantity |-> row.total_quantity - row.sold_quantity - held,
                 soldQuantity |-> row.sold_quantity,
                 heldQuantity |-> held]]

\* setInterval's callback: one sweep inside try/catch.  throws says whether
\* cleanupExpiredHolds() raises (the database is locked, closed or unreadable)
CleanupCallback(H, t, throws) ==
    IF throws
    THEN [holds |-> H, log |-> <<"Error in hold cleanup job:">>]
    ELSE LET r == cleanupExpiredHolds(H, t)
         IN  [holds |-> r.holds,
              log |-> IF r.result > 0 THEN <<"Cleaned up expired hold(s)">> ELSE <<>>]

\* A variant of startHoldCleanupJob that sets a timer whether or not one is set.
startHoldCleanupJobUnguarded(interval, live, H, t, throws) ==
    IF throws
    THEN [cleanupInterval |-> "Timeout", timers |-> live + 1, holds |-> H,
          thrown |-> TRUE, sweep |-> "throws",
          log |-> <<"Starting hold cleanup job">>]
    ELSE LET r == cleanupExpiredHolds(H, t)
         IN  [cleanupInterval |-> "Timeout", timers |-> live + 1, holds |-> r.holds,
              thrown |-> FALSE, sweep |-> "returns",
              log |-> IF r.result > 0
                      THEN <<"Starting hold cleanup job",
                             "Initial cleanup: removed expired hold(s)">>
                      ELSE <<"Starting hold cleanup job">>]

\* thrown: the error of the immediate sweep leaves startHoldCleanupJob().
\* live counts the timers of the event loop: setInterval adds one
startHoldCleanupJob(interval, live, H, t, throws) ==
    IF interval # NoInterval
    THEN [cleanupInterval |-> interval, timers |-> live, holds |-> H,
          thrown |-> FALSE, sweep |-> "not called",
          log |-> <<"Hold cleanup job already running">>]
    ELSE IF throws
    THEN [cleanupInterval |-> "Timeout", timers |-> live + 1, holds |-> H,
          thrown |-> TRUE, sweep |-> "throws",
          log |-> <<"Starting hold cleanup job">>]
    ELSE LET r == cleanupExpiredHolds(H, t)
         IN  [cleanupInterval |-> "Timeout", timers |-> live + 1, holds |-> r.holds,
              thrown |-> FALSE, sweep |-> "returns",
              log |-> IF r.result > 0
                      THEN <<"Starting hold cleanup job",
                             "Initial cleanup: removed expired hold(s)">>
                      ELSE <<"Starting hold cleanup job">>]

\* clearInterval takes the timer off the event loop
stopHoldCleanupJob(interval, live) ==
    IF interval # NoInterval
    THEN [cleanupInterval |-> NoInterval, timers |-> live - 1,
          log |-> <<"Hold cleanup job stopped">>]
    ELSE [cleanupInterval |-> interval, timers |-> live, log |-> <<>>]

\* the last line of what a call logged, or the line that stood before
Logged(log) == IF log = <<>> THEN console ELSE log[Len(log)]

addClient(clientSet, concertId, res) ==
    clientSet \cup {[concertId |-> concertId, res |-> res]}

removeClient(clientSet, concertId, res) ==
    clientSet \ {[concertId |-> concertId, res |-> res]}

\* res.write of the message a stream opens with
sendInitialData(W, inv, H, concertId, res, t) ==
    [W EXCEPT ![res] = [type |-> "initial", concertId |-> concertId,
                        inventory |-> getInventory(inv, H, concertId, t),
                        timestamp |-> toISOString(t)]]

\* client.write of an availability message to every client of the concert
broadcastAvailability(clientSet, W, inv, H, concertId, t) ==
    [res \in DOMAIN W |->
        IF [concertId |-> concertId, res |-> res] \in clientSet
        THEN [type |-> "availability", concertId |-> concertId,
              inventory |-> getInventory(inv, H, concertId, t),
              timestamp |-> toISOString(t)]
        ELSE W[res]]

\* a purchase of the whole of one tier, and a hold of it or of none
ServerSelections == {<<Selection("FRONT_ROW", q)>> : q \in {0, 3}}

\* the process serves requests between start() and its shutdown
Listening == cleanupInterval # NoInterval /\ uncaught = NoError

\* the database file as seed() left it, before start()
ServerInit ==
    /\ now = StartTime
    /\ inventory = SeedInventory
    /\ holds = {}
    /\ nextHoldId = 1
    /\ bookings = <<>>
    /\ booking_items = <<>>
    /\ pc = "idle"
    /\ call = NoCall
    /\ ret = NoRet
    /\ txn = NoTransaction
    /\ before = Tables
    /\ cleanupInterval = NoInterval
    /\ timers = 0
    /\ console = ""
    /\ uncaught = NoError
    /\ clients = {}
    /\ written = [res \in Responses |-> NoMessage]

\* a call of startHoldCleanupJob()
StartHoldCleanupJob(throws) ==
    LET r == startHoldCleanupJob(cleanupInterval, timers, holds, now, throws)
    IN  /\ pc = "idle"
        /\ uncaught = NoError
        /\ pc' = "returned"
        /\ call' = [op |-> "startHoldCleanupJob",
                    wasRunning |-> cleanupInterval # NoInterval,
                    cleanupExpiredHolds |-> r.sweep]
        /\ before' = Tables
        /\ holds' = r.holds
        /\ cleanupInterval' = r.cleanupInterval
        /\ timers' = r.timers
        /\ console' = Logged(r.log)
        /\ uncaught' = IF r.thrown THEN "Error" ELSE NoError
        /\ ret' = NoRet
        /\ UNCHANGED <<now, inventory, nextHoldId, bookings, booking_items, txn,
                       clients, written>>

\* a call of stopHoldCleanupJob()
StopHoldCleanupJob ==
    LET r == stopHoldCleanupJob(cleanupInterval, timers)
    IN  /\ pc = "idle"
        /\ uncaught = NoError
        /\ pc' = "returned"
        /\ call' = [op |-> "stopHoldCleanupJob",
                    wasRunning |-> cleanupInterval # NoInterval]
        /\ before' = Tables
        /\ cleanupInterval' = r.cleanupInterval
        /\ timers' = r.timers
        /\ console' = Logged(r.log)
        /\ ret' = NoRet
        /\ UNCHANGED <<now, db, txn, uncaught, clients, written>>

\* start(): initializeDatabase() finds the tables, startHoldCleanupJob() runs outside
\* any try/catch, so an error of the immediate sweep ends the process
Start(throws) ==
    /\ cleanupInterval = NoInterval
    /\ StartHoldCleanupJob(throws)

\* a timer of the event loop fires
IntervalTick(throws) ==
    LET r == CleanupCallback(holds, now, throws)
    IN  /\ pc = "idle"
        /\ timers > 0
        /\ uncaught = NoError
        /\ pc' = "returned"
        /\ call' = [op |-> "setInterval callback",
                    cleanupExpiredHolds |-> IF throws THEN "throws" ELSE "returns"]
        /\ before' = Tables
        /\ holds' = r.holds
        /\ console' = Logged(r.log)
        /\ ret' = NoRet
        /\ UNCHANGED <<now, inventory, nextHoldId, bookings, booking_items, txn,
                       cleanupInterval, timers, uncaught, clients, written>>

\* SIGTERM or SIGINT: the job stops and the process exits, its connections with it;
\* the database file stays for the next start()
Shutdown ==
    LET r == stopHoldCleanupJob(cleanupInterval, timers)
    IN  /\ pc = "idle"
        /\ Listening
        /\ cleanupInterval' = r.cleanupInterval
        /\ timers' = r.timers
        /\ console' = Logged(r.log)
        /\ clients' = {}
        /\ written' = [res \in Responses |-> NoMessage]
        /\ UNCHANGED <<now, db, pc, call, ret, txn, before, uncaught>>

\* GET /api/concerts/:id
GetConcert(concertId) ==
    /\ Called([op |-> "getInventory", concertId |-> concertId])
    /\ ret' = [inventory |-> getInventory(inventory, holds, concertId, now)]
    /\ UNCHANGED <<db, txn>>

\* GET /api/concerts/:id/availability/stream
AvailabilityStream(concertId, res) ==
    /\ pc = "idle"
    /\ \A client \in clients : client.res # res
    /\ written' = sendInitialData(written, inventory, holds, concertId, res, now)
    /\ clients' = addClient(clients, concertId, res)
    /\ UNCHANGED <<now, db, pc, call, ret, txn, before, cleanupInterval, timers,
                   console, uncaught>>

\* the request of a stream closes
StreamClosed(concertId, res) ==
    /\ pc = "idle"
    /\ [concertId |-> concertId, res |-> res] \in clients
    /\ clients' = removeClient(clients, concertId, res)
    /\ written' = [written EXCEPT ![res] = NoMessage]
    /\ UNCHANGED <<now, db, pc, call, ret, txn, before, cleanupInterval, timers,
                   console, uncaught>>

ServerNext ==
    \/ \E throws \in BOOLEAN : Start(throws)
    \/ \E throws \in BOOLEAN : IntervalTick(throws)
    \/ Shutdown
    \/ uncaught = NoError /\ \E minutes \in TickMinutes : Tick(minutes)
    \/ Listening /\ \E c \in ConcertIds : GetConcert(c)
    \/ Listening /\ \E c \in ConcertIds, res \in Responses : AvailabilityStream(c, res)
    \/ Listening /\ \E c \in ConcertIds, res \in Responses : StreamClosed(c, res)
    \/ Listening /\ \E s \in SessionIds, c \in ConcertIds, sel \in ServerSelections :
         CreateOrUpdateHolds(s, c, sel)
    \/ Listening /\ \E s \in SessionIds, c \in ConcertIds : ReleaseHolds(s, c)
    \/ Listening /\ \E s \in SessionIds, c \in ConcertIds, sel \in ServerSelections,
                       paymentSuccess \in BOOLEAN :
         ProcessBooking(s, c, sel, paymentSuccess)
    \/ uncaught = NoError /\ Return

ServerSpec == ServerInit /\ [][ServerNext]_vars

\* the cleanup job as a module: its two functions called in any order, its timers
\* firing, holds taken and the clock moving in between
JobNext ==
    \/ \E throws \in BOOLEAN : StartHoldCleanupJob(throws)
    \/ StopHoldCleanupJob
    \/ \E throws \in BOOLEAN : IntervalTick(throws)
    \/ uncaught = NoError /\ \E minutes \in TickMinutes : Tick(minutes)
    \/ uncaught = NoError
          /\ \E s \in SessionIds, c \in ConcertIds, sel \in ServerSelections :
                CreateOrUpdateHolds(s, c, sel)
    \/ uncaught = NoError /\ Return

JobSpec == ServerInit /\ [][JobNext]_vars

----------------------------------------------------------------------------
(* routes/bookings: POST /api/bookings/checkout and POST /api/bookings/payment *)

\* the second concert of the seed, with more tickets of every tier than the caps
NeonNights == [neon |-> [VIP |-> 50, FRONT_ROW |-> 100, GA |-> 500]]

\* seed(): the ticket_inventory rows of both concerts, nothing sold
CheckoutInventory ==
    [k \in (SeededIds \cup DOMAIN NeonNights) \X TicketTier |->
        [concert_id |-> k[1], tier |-> k[2],
         total_quantity |-> IF k[1] \in SeededIds THEN SEED_CONCERTS[k[1]][k[2]]
                            ELSE NeonNights[k[1]][k[2]],
         sold_quantity |-> 0]]

\* result.holds.reduce((min, h) => new Date(h.expiresAt) < new Date(min.expiresAt) ? h : min)
RECURSIVE EarliestHold(_, _)
EarliestHold(min, rest) ==
    IF rest = <<>> THEN min
    ELSE EarliestHold(IF getTime(Head(rest).expiresAt) < getTime(min.expiresAt)
                      THEN Head(rest) ELSE min,
                      Tail(rest))

\* The route with a valid body: the tables it leaves and the response it sends.
checkout(inv, H, nextId, sessionId, concertId, selections, t) ==
    LET filteredSelections == SelectSeq(selections, LAMBDA s : s.quantity > 0)
        r == createOrUpdateHolds(inv, H, nextId, sessionId, concertId,
                                 filteredSelections, t)
        result == r.result
    IN  IF Len(filteredSelections) = 0
        THEN [holds |-> H, nextHoldId |-> nextId, txn |-> NoTransaction,
              response |-> [status |-> 400,
                            body |-> [error |-> "Bad request",
                                      message |-> "No tickets selected"]]]
        ELSE IF result.success
        THEN [holds |-> r.holds, nextHoldId |-> r.nextHoldId, txn |-> r.txn,
              response |->
                [status |-> 200,
                 body |-> [success |-> TRUE,
                           checkoutSessionId |-> <<"checkout-", t>>,
                           holds |-> result.holds,
                           expiresAt |->
                             IF Len(result.holds) > 0
                             THEN EarliestHold(Head(result.holds),
                                               Tail(result.holds)).expiresAt
                             ELSE toISOString(t + holdDurationMin)]]]
        ELSE [holds |-> r.holds, nextHoldId |-> r.nextHoldId, txn |-> r.txn,
              response |->
                [status |-> 409,
                 body |-> IF "unavailable" \in DOMAIN result
                          THEN [success |-> FALSE, checkoutSessionId |-> "",
                                holds |-> result.holds, expiresAt |-> "",
                                message |-> result.message,
                                unavailable |-> result.unavailable]
                          ELSE [success |-> FALSE, checkoutSessionId |-> "",
                                holds |-> result.holds, expiresAt |-> "",
                                message |-> result.message]]]

payment(inv, H, B, BI, sessionId, concertId, paymentSuccess, t) ==
    LET held == getHoldsForConcert(H, sessionId, concertId, t)
        selections == [i \in 1..Len(held) |-> Selection(held[i].tier, held[i].quantity)]
        r == processBooking(inv, H, B, BI, sessionId, concertId, selections,
                            paymentSuccess, t)
    IN  IF Len(held) = 0
        THEN [inventory |-> inv, holds |-> H, bookings |-> B, booking_items |-> BI,
              txn |-> NoTransaction, payment |-> "not asked",
              selections |-> selections,
              response |-> [status |-> 400,
                            body |-> [success |-> FALSE,
                                      message |-> "No active holds found",
                                      retryAllowed |-> FALSE]]]
        ELSE [inventory |-> r.inventory, holds |-> r.holds, bookings |-> r.bookings,
              booking_items |-> r.booking_items, txn |-> r.txn,
              payment |-> r.payment, selections |-> selections,
              response |-> [status |-> IF r.result.success THEN 200
                                       ELSE IF r.result.retryAllowed THEN 402
                                       ELSE 409,
                            body |-> r.result]]

\* the concert the requests of the checkout name
CheckoutConcertIds == DOMAIN NeonNights

\* two tiers at the cap of a tier, a third tier at it, a request that sets one
\* tier to 0 and takes another, and a request of 0 of everything
CheckoutSelections ==
    {<<Selection("VIP", MAX_TICKETS_PER_TIER), Selection("FRONT_ROW", MAX_TICKETS_PER_TIER)>>,
     <<Selection("GA", MAX_TICKETS_PER_TIER)>>,
     <<Selection("VIP", 0), Selection("GA", 2)>>,
     <<Selection("VIP", 0), Selection("FRONT_ROW", 0), Selection("GA", 0)>>}

CheckoutInit ==
    /\ now = StartTime
    /\ inventory = CheckoutInventory
    /\ holds = {}
    /\ nextHoldId = 1
    /\ bookings = <<>>
    /\ booking_items = <<>>
    /\ pc = "idle"
    /\ call = NoCall
    /\ ret = NoRet
    /\ txn = NoTransaction
    /\ before = Tables
    /\ cleanupInterval = "Timeout"
    /\ timers = 1
    /\ console = "Starting hold cleanup job"
    /\ uncaught = NoError
    /\ clients = {}
    /\ written = [res \in Responses |-> NoMessage]

Checkout(sessionId, concertId, selections) ==
    LET r == checkout(inventory, holds, nextHoldId, sessionId, concertId, selections, now)
    IN  /\ r.nextHoldId <= MaxCheckoutHoldIds + 1
        /\ Called([op |-> "checkout", sessionId |-> sessionId,
                   concertId |-> concertId, selections |-> selections])
        /\ holds' = r.holds
        /\ nextHoldId' = r.nextHoldId
        /\ ret' = r.response
        /\ txn' = r.txn
        /\ UNCHANGED <<inventory, bookings, booking_items>>

\* simulatePayment() has either outcome, and declines once MaxBookings bookings exist
Payment(sessionId, concertId, paymentSuccess) ==
    LET r == payment(inventory, holds, bookings, booking_items, sessionId, concertId,
                     paymentSuccess, now)
    IN  /\ paymentSuccess => Len(bookings) < MaxBookings
        /\ Called([op |-> "payment", sessionId |-> sessionId, concertId |-> concertId,
                   selections |-> r.selections, simulatePayment |-> r.payment])
        /\ inventory' = r.inventory
        /\ holds' = r.holds
        /\ bookings' = r.bookings
        /\ booking_items' = r.booking_items
        /\ ret' = r.response
        /\ txn' = r.txn
        /\ UNCHANGED nextHoldId

CheckoutNext ==
    \/ \E minutes \in TickMinutes : Tick(minutes)
    \/ \E s \in SessionIds, c \in CheckoutConcertIds, sel \in CheckoutSelections :
         Checkout(s, c, sel)
    \/ \E s \in SessionIds, c \in CheckoutConcertIds, paymentSuccess \in BOOLEAN :
         Payment(s, c, paymentSuccess)
    \/ CleanupExpiredHolds
    \/ Return

CheckoutSpec == CheckoutInit /\ [][CheckoutNext]_vars

----------------------------------------------------------------------------
(* Properties *)

\* a call of op has just returned: call holds its arguments, ret its result,
\* before the tables it started from
Returned(op) == pc = "returned" /\ call.op = op

\* a hold has expired once its expiresAt is at or before the current time
Expired(h, t) == getTime(h.expires_at) <= t

\* the sum of the quantities of the holds of a tier that have not expired
NonExpiredQuantity(H, concertId, tier, t) ==
    SumQuantity({h \in H : h.concert_id = concertId /\ h.tier = tier /\ ~Expired(h, t)})

IsNonZero(selection) == selection.quantity > 0

NonZero(selections) == SelectSeq(selections, IsNonZero)

\* the tickets of a tier a list of selections asks for
RECURSIVE Purchased(_, _)
Purchased(selections, tier) ==
    IF selections = <<>> THEN 0
    ELSE (IF Head(selections).tier = tier THEN Head(selections).quantity ELSE 0)
         + Purchased(Tail(selections), tier)

\* C1: in every reachable state, for every concert and tier, what is sold is at
\* most the total, and what is sold plus what non-expired holds keep is at most
\* the total.
NeverOversold ==
    \A key \in DOMAIN inventory :
        /\ inventory[key].sold_quantity <= inventory[key].total_quantity
        /\ inventory[key].sold_quantity + NonExpiredQuantity(holds, key[1], key[2], now)
              <= inventory[key].total_quantity

\* a createOrUpdateHolds call for 3 of a tier with 5 in all and nothing sold
RequestOfThree(tier) ==
    /\ Returned("createOrUpdateHolds")
    /\ call.selections = <<Selection(tier, 3)>>
    /\ <<call.concertId, tier>> \in DOMAIN before.inventory
    /\ before.inventory[<<call.concertId, tier>>].total_quantity = 5
    /\ before.inventory[<<call.concertId, tier>>].sold_quantity = 0

\* ... that ran first of the two: there was no hold
FirstOfTwo(tier) == RequestOfThree(tier) /\ before.holds = {}

\* ... that ran second: the only hold was the one the other session's request for 3
\* had been granted in the same instant
SecondOfTwo(tier) ==
    /\ RequestOfThree(tier)
    /\ \E h \in before.holds :
          /\ before.holds = {h}
          /\ h.session_id # call.sessionId
          /\ h.concert_id = call.concertId
          /\ h.tier = tier
          /\ h.quantity = 3
          /\ h.created_at = toISOString(now)
          /\ h.expires_at = toISOString(now + holdDurationMin)

\* C2: of two requests for 3 of a tier with 5 in all, nothing sold and no holds,
\* made by two sessions at the same time, the one that runs first is granted in
\* full and the other is rejected for the tier, whichever runs first; the holds
\* granted sum to 3.
ExactlyOneOfTwoGranted ==
    \A tier \in TicketTier :
        /\ FirstOfTwo(tier) =>
              /\ ret.success
              /\ Len(ret.holds) = 1
              /\ ret.holds[1].quantity = 3
              /\ ret.holds[1].sessionId = call.sessionId
              /\ Cardinality(holds) = 1
              /\ NonExpiredQuantity(holds, call.concertId, tier, now) = 3
        /\ SecondOfTwo(tier) =>
              /\ ~ret.success
              /\ ret.holds = <<>>
              /\ "unavailable" \in DOMAIN ret
              /\ ret.unavailable = call.selections
              /\ holds = before.holds
              /\ NonExpiredQuantity(holds, call.concertId, tier, now) <= 5

\* C2's case: the second of the two requests has been answered
SecondOfTwoAnswered == SecondOfTwo("GA")

\* C3: a hold whose expiresAt is at or before the current time is never counted in
\* the held sum, and cleanupExpiredHolds deletes every such hold and no other and
\* returns how many it deleted.
ExpiredHoldsNotCountedAndSwept ==
    /\ \A h \in holds : NotExpiredSql(h, now) => ~Expired(h, now)
    /\ \A key \in DOMAIN inventory :
          HeldQuantity(holds, key[1], key[2], now)
             = NonExpiredQuantity(holds, key[1], key[2], now)
    /\ Returned("cleanupExpiredHolds") =>
          /\ holds = {h \in before.holds : ~Expired(h, now)}
          /\ ret.changes = Cardinality(before.holds \ holds)

\* C4: in every reachable state every hold has expiresAt <= createdAt + the hard
\* cap of 15 minutes.
NoHoldOutlivesHardCap ==
    \A h \in holds : getTime(h.expires_at) <= getTime(h.created_at) + hardCapMin

\* the tables a call left are the tables it started from
NothingChanged == Tables = before

\* processBooking has just reported success
BookingSucceeded == Returned("processBooking") /\ ret.success

\* C5: when processBooking reports success there is exactly one new booking, which
\* is CONFIRMED, with one item per non-zero selection; what is sold of each tier
\* has grown by exactly what was bought of it and by nothing for the other tiers;
\* the session has no hold left for the concert, and the holds of the other
\* sessions are as they were.
SuccessfulBookingEffects ==
    BookingSucceeded =>
        LET bought == NonZero(call.selections)
            n == Len(before.bookings)
            m == Len(before.booking_items)
        IN  /\ Len(bookings) = n + 1
            /\ SubSeq(bookings, 1, n) = before.bookings
            /\ bookings[n + 1].status = "CONFIRMED"
            /\ bookings[n + 1].session_id = call.sessionId
            /\ bookings[n + 1].concert_id = call.concertId
            /\ ret.booking.id = bookings[n + 1].id
            /\ ret.booking.status = "CONFIRMED"
            /\ Len(ret.booking.items) = Len(bought)
            /\ Len(booking_items) = m + Len(bought)
            /\ SubSeq(booking_items, 1, m) = before.booking_items
            /\ \A i \in 1..Len(bought) :
                  /\ booking_items[m + i].booking_id = bookings[n + 1].id
                  /\ booking_items[m + i].tier = bought[i].tier
                  /\ booking_items[m + i].quantity = bought[i].quantity
            /\ DOMAIN inventory = DOMAIN before.inventory
            /\ \A key \in DOMAIN inventory :
                  /\ inventory[key].total_quantity = before.inventory[key].total_quantity
                  /\ inventory[key].sold_quantity =
                        before.inventory[key].sold_quantity
                        + (IF key[1] = call.concertId
                           THEN Purchased(call.selections, key[2]) ELSE 0)
            /\ ~\E h \in holds :
                  h.session_id = call.sessionId /\ h.concert_id = call.concertId
            /\ {h \in holds : h.session_id # call.sessionId}
                  = {h \in before.holds : h.session_id # call.sessionId}
            /\ holds \subseteq before.holds

\* C5's case: a booking of tickets has succeeded while another session held some
BookedBesideAnotherSession ==
    /\ BookingSucceeded
    /\ NonZero(call.selections) # <<>>
    /\ \E h \in before.holds : h.session_id = call.sessionId
    /\ \E h \in holds : h.session_id # call.sessionId

\* C6: when the payment is declined processBooking returns success = false with
\* retryAllowed = true and changes nothing: no booking, no item, nothing sold, and
\* every hold with the quantity and the expiresAt it had; retryAllowed = true is
\* returned in no other case.
DeclinedPaymentChangesNothing ==
    Returned("processBooking") =>
        /\ call.simulatePayment = "declined" =>
              /\ ~ret.success
              /\ ret.retryAllowed
              /\ NothingChanged
        /\ ("retryAllowed" \in DOMAIN ret /\ ret.retryAllowed) =>
              call.simulatePayment = "declined"

\* C6's case: the payment for a hold of 3 has been declined
PaymentDeclinedOnHoldOfThree ==
    /\ Returned("processBooking")
    /\ call.simulatePayment = "declined"
    /\ \E h \in holds :
          h.session_id = call.sessionId /\ h.concert_id = call.concertId /\ h.quantity = 3

\* the session has, among the given rows, a hold of the selection's tier that is at
\* least as large as the selection
HasHoldFor(rows, selection) ==
    \E h \in rows :
        /\ h.session_id = call.sessionId
        /\ h.concert_id = call.concertId
        /\ h.tier = selection.tier
        /\ h.quantity >= selection.quantity

\* C7: processBooking called with a non-zero selection for a tier in which the
\* session has no non-expired hold, or only a smaller one, returns success = false
\* with retryAllowed = false, and no booking is created, nothing is sold and every
\* hold is as it was.
BookingWithoutHoldFails ==
    (/\ Returned("processBooking")
     /\ \E i \in DOMAIN call.selections :
           /\ call.selections[i].quantity > 0
           /\ ~HasHoldFor({h \in before.holds : ~Expired(h, now)}, call.selections[i]))
    => /\ ~ret.success
       /\ ~ret.retryAllowed
       /\ NothingChanged

\* every non-zero selection has a hold the code takes for active
HoldValidationPassed ==
    \A i \in DOMAIN call.selections :
        call.selections[i].quantity > 0 =>
            HasHoldFor({h \in before.holds : NotExpiredSql(h, now)}, call.selections[i])

\* some non-zero selection asks for more than total - sold, or for a tier without
\* an inventory row
NoHeadroom ==
    \E i \in DOMAIN call.selections :
        LET key == <<call.concertId, call.selections[i].tier>>
        IN  /\ call.selections[i].quantity > 0
            /\ \/ key \notin DOMAIN before.inventory
               \/ before.inventory[key].total_quantity - before.inventory[key].sold_quantity
                     < call.selections[i].quantity

\* C8: processBooking returns a failure with retryAllowed = false and changes
\* nothing when some non-zero selection finds total - sold < its quantity, or no
\* inventory row, although the hold validation passed.
InventoryShortfallFailsBooking ==
    (Returned("processBooking") /\ HoldValidationPassed /\ NoHeadroom)
    => /\ ~ret.success
       /\ ~ret.retryAllowed
       /\ NothingChanged

\* C8's case: a booking whose holds are in order has met an inventory without headroom
HeldButNoHeadroom == Returned("processBooking") /\ HoldValidationPassed /\ NoHeadroom

\* C9: every unit run through withTransaction holds the write lock when its first
\* read starts.
WriteLockBeforeFirstRead ==
    (pc = "returned" /\ txn.begin # "none") =>
        \A i \in DOMAIN txn.statements :
            (/\ txn.statements[i] = "read"
             /\ \A j \in 1..(i - 1) : txn.statements[j] # "read")
            => LockBefore(txn, i) = "RESERVED"

\* a selection is over the per-tier cap, or the selections sum to more than the
\* per-order cap
OverACap(selections) ==
    \/ \E i \in DOMAIN selections : selections[i].quantity > MAX_TICKETS_PER_TIER
    \/ Purchased(selections, "VIP") + Purchased(selections, "FRONT_ROW")
          + Purchased(selections, "GA") > MAX_TICKETS_PER_ORDER

\* C10: createOrUpdateHolds rejects the whole call, with success = false and an
\* empty holds list and every hold and inventory row as it was, when a selection
\* is over MAX_TICKETS_PER_TIER or the selections sum to more than
\* MAX_TICKETS_PER_ORDER.
OverCapRequestRejected ==
    (Returned("createOrUpdateHolds") /\ OverACap(call.selections))
    => /\ ~ret.success
       /\ ret.holds = <<>>
       /\ NothingChanged

\* C10's case: a request over the per-order cap alone has been answered while
\* there were holds
OverOrderCapAnswered ==
    /\ Returned("createOrUpdateHolds")
    /\ \A i \in DOMAIN call.selections :
          call.selections[i].quantity <= MAX_TICKETS_PER_TIER
    /\ OverACap(call.selections)
    /\ before.holds # {}

\* the caller's rows of a tier among the given rows
CallerRows(rows, tier) ==
    {h \in rows : h.session_id = call.sessionId /\ h.concert_id = call.concertId
                    /\ h.tier = tier}

\* the rows of the sessions other than the caller
OthersRows(rows) == {h \in rows : h.session_id # call.sessionId}

\* the call names the tier in exactly one selection
NamedOnce(tier) ==
    Cardinality({i \in DOMAIN call.selections : call.selections[i].tier = tier}) = 1

\* the tiers the result lists as unavailable
UnavailableTiers ==
    IF "unavailable" \in DOMAIN ret
    THEN {ret.unavailable[i].tier : i \in DOMAIN ret.unavailable}
    ELSE {}

CallerQuantity(rows, tier) == SumQuantity(CallerRows(rows, tier))

\* the tiers of the holds the result lists
HoldsTiers == {ret.holds[i].tier : i \in DOMAIN ret.holds}

\* createOrUpdateHolds has just answered a call that passed the validation of the caps
HoldsCallAnswered == Returned("createOrUpdateHolds") /\ ~OverACap(call.selections)

\* the caller has, after the call, exactly one hold of the selection's tier, of the
\* quantity asked for, running for the hold duration from now
HoldAsRequested(selection) ==
    \E h \in holds :
        /\ CallerRows(holds, selection.tier) = {h}
        /\ h.quantity = selection.quantity
        /\ h.expires_at = toISOString(now + holdDurationMin)
        /\ h.last_activity_at = toISOString(now)

\* C12: a tier asked for with a quantity above 0 is granted exactly when the
\* increase over the caller's existing hold is at most 0 or at most total - sold -
\* the holds that have not expired, and a granted tier's hold ends with the
\* quantity asked for, expiresAt = now + the hold duration and lastActivityAt =
\* now; for a tier the call names once.
GrantedExactlyWhenAvailable ==
    HoldsCallAnswered =>
        \A i \in DOMAIN call.selections :
            LET selection == call.selections[i]
                key == <<call.concertId, selection.tier>>
                delta == selection.quantity - CallerQuantity(before.holds, selection.tier)
                available ==
                    before.inventory[key].total_quantity
                    - before.inventory[key].sold_quantity
                    - NonExpiredQuantity(before.holds, call.concertId, selection.tier, now)
                granted == selection.tier \notin UnavailableTiers
            IN  (selection.quantity > 0 /\ NamedOnce(selection.tier)) =>
                    /\ granted <=> (delta <= 0 \/ delta <= available)
                    /\ granted => HoldAsRequested(selection)

\* the capacity check of the code refuses the selection on the tables the call
\* started from
FailsCapacityCheck(selection) ==
    LET delta == selection.quantity - CallerQuantity(before.holds, selection.tier)
    IN  /\ delta > 0
        /\ delta > getAvailableQuantity(before.inventory, before.holds, call.concertId,
                                        selection.tier, now)

\* C13: a call in which some tiers fail the capacity check applies every tier that
\* passed it and returns success = false, with exactly the failed selections in
\* unavailable and exactly the applied tiers in holds; success is true if and only
\* if no tier failed.  For calls within the caps; the tiers are those the call names
\* once.
PartialFailureAppliesTheRest ==
    HoldsCallAnswered =>
        /\ ret.success <=> UnavailableTiers = {}
        /\ ret.success <=> "unavailable" \notin DOMAIN ret
        /\ Len(ret.holds)
              + (IF "unavailable" \in DOMAIN ret THEN Len(ret.unavailable) ELSE 0)
              = Len(NonZero(call.selections))
        /\ \A i \in DOMAIN call.selections :
              LET selection == call.selections[i]
              IN  (selection.quantity > 0 /\ NamedOnce(selection.tier)) =>
                      IF FailsCapacityCheck(selection)
                      THEN /\ ~ret.success
                           /\ \E j \in DOMAIN ret.unavailable :
                                 ret.unavailable[j] = selection
                           /\ selection.tier \notin HoldsTiers
                           /\ CallerRows(holds, selection.tier)
                                 = CallerRows(before.holds, selection.tier)
                      ELSE /\ selection.tier \notin UnavailableTiers
                           /\ HoldAsRequested(selection)
                           /\ \E j \in DOMAIN ret.holds :
                                 /\ ret.holds[j].tier = selection.tier
                                 /\ ret.holds[j].quantity = selection.quantity
                                 /\ ret.holds[j].sessionId = call.sessionId
                                 /\ CallerRows(holds, selection.tier)
                                       = {h \in holds : h.id = ret.holds[j].id}

\* C13's case: of two tiers asked for in one call, one has failed and the other
\* has been applied
OneTierFailedOneApplied ==
    /\ HoldsCallAnswered
    /\ UnavailableTiers # {}
    /\ HoldsTiers # {}
    /\ UnavailableTiers \cap HoldsTiers = {}
    /\ holds # before.holds

\* rows without the two columns a repeated call may move
WithoutTimestamps(rows) ==
    {[h EXCEPT !.expires_at = Null, !.last_activity_at = Null] : h \in rows}

\* the success flag of a result and the selections it lists as unavailable
Outcome(result) ==
    [success |-> result.success,
     unavailable |-> IF "unavailable" \in DOMAIN result THEN result.unavailable ELSE <<>>]

\* the minutes between a call and its repetition
RepeatAfter == {0, 1}

\* no hold runs out within the given minutes, by the clock or by the code's test
NoneExpiresWithin(minutes) ==
    \A h \in holds :
        /\ Expired(h, now + minutes) = Expired(h, now)
        /\ ExpiredSql(h, now + minutes) = ExpiredSql(h, now)

\* the call that has just returned, made again on the tables it left
CalledAgain(minutes) ==
    createOrUpdateHolds(inventory, holds, nextHoldId, call.sessionId, call.concertId,
                        call.selections, now + minutes)

\* C14: createOrUpdateHolds called a second time with the same arguments, with no
\* other call and no expiry in between, leaves the holds it found, with the same
\* quantities, and returns the same success flag and the same unavailable
\* selections as the first call; only expiresAt and lastActivityAt may differ.
RepeatedCallIsIdempotent ==
    Returned("createOrUpdateHolds") =>
        \A minutes \in RepeatAfter :
            NoneExpiresWithin(minutes) =>
                /\ WithoutTimestamps(CalledAgain(minutes).holds) = WithoutTimestamps(holds)
                /\ Outcome(CalledAgain(minutes).result) = Outcome(ret)
                /\ Len(CalledAgain(minutes).result.holds) = Len(ret.holds)
                /\ \A j \in DOMAIN ret.holds :
                      /\ CalledAgain(minutes).result.holds[j].id = ret.holds[j].id
                      /\ CalledAgain(minutes).result.holds[j].quantity = ret.holds[j].quantity

\* C14's case: a call that was granted one tier and refused another can be made
\* again a minute later
PartlyGrantedCallRepeatable ==
    /\ HoldsCallAnswered
    /\ HoldsTiers # {}
    /\ UnavailableTiers # {}
    /\ NoneExpiresWithin(1)
    /\ CalledAgain(1).holds # holds

\* C15: a selection of quantity 0 always removes the caller's hold of its tier,
\* and a selection that keeps or lowers the held quantity is always applied,
\* whatever the availability; for calls within the caps and a tier the call names
\* once.
ReleaseAndReductionAlwaysApplied ==
    HoldsCallAnswered =>
        \A i \in DOMAIN call.selections :
            LET selection == call.selections[i]
                existing == CallerQuantity(before.holds, selection.tier)
            IN  NamedOnce(selection.tier) =>
                    /\ selection.quantity = 0 => CallerRows(holds, selection.tier) = {}
                    /\ (selection.quantity > 0 /\ selection.quantity <= existing) =>
                          /\ selection.tier \notin UnavailableTiers
                          /\ selection.tier \in HoldsTiers
                          /\ HoldAsRequested(selection)

\* C15's case: a hold has been lowered while nothing of its tier was available
LoweredWithNothingAvailable ==
    /\ HoldsCallAnswered
    /\ \E i \in DOMAIN call.selections :
          /\ NamedOnce(call.selections[i].tier)
          /\ call.selections[i].quantity > 0
          /\ call.selections[i].quantity
                < CallerQuantity(before.holds, call.selections[i].tier)
          /\ getAvailableQuantity(before.inventory, before.holds, call.concertId,
                                  call.selections[i].tier, now) <= 0

\* processHeartbeat has just answered a call made with the tab visible and activity
\* within the inactivity timeout
ActiveHeartbeatAnswered ==
    /\ Returned("processHeartbeat")
    /\ call.isTabVisible
    /\ now - call.lastActivityAt <= inactivityTimeoutMin

\* the caller's holds for the concert, among the given rows
SessionRows(rows) ==
    {h \in rows : h.session_id = call.sessionId /\ h.concert_id = call.concertId}

\* C16: a processHeartbeat made with the tab visible and fresh activity never
\* lowers the expiresAt of a hold of the session that has not expired, raises it
\* when it is below createdAt + the hard cap and time has passed since the hold
\* was last written, and never sets it beyond createdAt + the hard cap.
HeartbeatOnlyExtends ==
    ActiveHeartbeatAnswered =>
        \A h \in SessionRows(before.holds) :
            ~Expired(h, now) =>
                \E g \in holds :
                    /\ g.id = h.id
                    /\ getTime(g.expires_at) >= getTime(h.expires_at)
                    /\ (/\ getTime(h.expires_at) < getTime(h.created_at) + hardCapMin
                        /\ getTime(h.last_activity_at) < now)
                       => getTime(g.expires_at) > getTime(h.expires_at)
                    /\ getTime(g.expires_at) <= getTime(g.created_at) + hardCapMin

\* the caller's holds for the concert that had not expired when the call was made
LiveRows == {h \in SessionRows(before.holds) : ~Expired(h, now)}

\* createdAt of the oldest of the given holds, plus the hard cap
HardCapEnd(rows) ==
    LET oldest == CHOOSE h \in rows :
                      \A g \in rows : getTime(h.created_at) <= getTime(g.created_at)
    IN  getTime(oldest.created_at) + hardCapMin

Min(a, b) == IF a < b THEN a ELSE b

\* the heartbeat reports the tab visible and the last activity longer ago than the
\* inactivity timeout
ReportsInactivity ==
    call.isTabVisible /\ now - call.lastActivityAt > inactivityTimeoutMin

\* C17: processHeartbeat on a session with holds that have not expired sets their
\* expiry to min(now + grace period, oldest createdAt + hard cap) when the tab is
\* not visible; leaves every hold as it is and returns the current expiry when the
\* tab is visible and the last activity is longer ago than the inactivity timeout;
\* and sets the expiry to min(now + hold duration, oldest createdAt + hard cap)
\* otherwise.
HeartbeatSetsExpiryByBranch ==
    (Returned("processHeartbeat") /\ LiveRows # {}) =>
        LET expected == IF call.isTabVisible
                        THEN Min(now + holdDurationMin, HardCapEnd(LiveRows))
                        ELSE Min(now + gracePeriodMin, HardCapEnd(LiveRows))
        IN  /\ ret.success
            /\ OthersRows(holds) = OthersRows(before.holds)
            /\ IF ReportsInactivity
               THEN /\ holds = before.holds
                    /\ \E h \in LiveRows : ret.expiresAt = h.expires_at
               ELSE /\ ret.expiresAt = toISOString(expected)
                    /\ \A h \in LiveRows :
                          [h EXCEPT !.expires_at = toISOString(expected),
                                    !.last_activity_at = toISOString(now)] \in holds
                    /\ Cardinality(holds) = Cardinality(before.holds)

\* C18: processHeartbeat never creates a hold, and when the session has no hold
\* for the concert that has not expired it returns success = false with the
\* message 'No active holds found', an empty hold list and a null expiry, and
\* leaves every hold as it was.
HeartbeatWithoutHoldsFails ==
    Returned("processHeartbeat") =>
        /\ {h.id : h \in holds} \subseteq {h.id : h \in before.holds}
        /\ LiveRows = {} =>
              /\ ~ret.success
              /\ ret.message = "No active holds found"
              /\ ret.holds = <<>>
              /\ ret.expiresAt = Null
              /\ holds = before.holds

\* C19: in every reachable state there is at most one hold per session, concert
\* and tier, and a createOrUpdateHolds for a session, concert and tier that has a
\* hold writes to that hold, keeping its id and its createdAt, also when the call
\* names the tier twice.
OneHoldPerSessionConcertTier ==
    /\ \A h \in holds : \A g \in holds :
          (g.session_id = h.session_id /\ g.concert_id = h.concert_id /\ g.tier = h.tier)
          => g = h
    /\ Returned("createOrUpdateHolds") =>
          \A h \in SessionRows(before.holds) : \A g \in SessionRows(holds) :
              g.tier = h.tier => (g.id = h.id /\ g.created_at = h.created_at)

\* C19's case: a call that names twice a tier the caller held has been granted
\* both times
HeldTierNamedTwiceGranted ==
    /\ HoldsCallAnswered
    /\ ret.success
    /\ Len(ret.holds) = 2
    /\ \E tier \in TicketTier :
          /\ ~NamedOnce(tier)
          /\ CallerRows(before.holds, tier) # {}
          /\ CallerRows(holds, tier) # CallerRows(before.holds, tier)
          /\ ret.holds[1].tier = tier
          /\ ret.holds[2].tier = tier

\* C20: total_quantity never changes and sold_quantity never decreases; an
\* inventory row changes only in a processBooking that reports success:
\* createOrUpdateHolds, processHeartbeat, releaseHolds, releaseAllHolds,
\* cleanupExpiredHolds and every failed processBooking leave the inventory as it
\* was.
InventoryChangesOnlyByBooking ==
    /\ DOMAIN inventory = DOMAIN SeedInventory
    /\ DOMAIN inventory = DOMAIN before.inventory
    /\ \A key \in DOMAIN inventory :
          /\ inventory[key].total_quantity = SeedInventory[key].total_quantity
          /\ inventory[key].sold_quantity >= before.inventory[key].sold_quantity
    /\ inventory # before.inventory => BookingSucceeded

\* C20's case: after a sale a booking has failed
BookingFailedAfterSale ==
    /\ Returned("processBooking")
    /\ ~ret.success
    /\ \E key \in DOMAIN inventory : inventory[key].sold_quantity > 0

\* C21: a booking is stored only by a processBooking whose payment succeeded, is
\* always stored with status CONFIRMED and a confirmedAt timestamp, and no later
\* operation modifies or deletes it or its items: the two tables only ever grow
\* at the end, and only in such a call.
BookingsOnlyAppendedWhenPaid ==
    /\ \A i \in DOMAIN bookings :
          bookings[i].status = "CONFIRMED" /\ bookings[i].confirmed_at # Null
    /\ Len(bookings) >= Len(before.bookings)
    /\ SubSeq(bookings, 1, Len(before.bookings)) = before.bookings
    /\ Len(booking_items) >= Len(before.booking_items)
    /\ SubSeq(booking_items, 1, Len(before.booking_items)) = before.booking_items
    /\ (bookings # before.bookings \/ booking_items # before.booking_items) =>
          /\ BookingSucceeded
          /\ call.simulatePayment = "approved"
          /\ Len(bookings) = Len(before.bookings) + 1
    /\ \A i \in DOMAIN booking_items :
          \E j \in DOMAIN bookings : booking_items[i].booking_id = bookings[j].id

\* C21's case: with a booking stored, a later call has changed the holds
HoldsChangedAfterBooking ==
    /\ pc = "returned"
    /\ Len(before.bookings) > 0
    /\ before.booking_items # <<>>
    /\ holds # before.holds

\* the items of a booking, in the order they were stored
ItemsOf(booking) ==
    SelectSeq(booking_items, LAMBDA item : item.booking_id = booking.id)

\* the sum of the subtotals of the first n of the given items
RECURSIVE SubtotalsUpTo(_, _)
SubtotalsUpTo(items, n) ==
    IF n = 0 THEN 0 ELSE items[n].subtotal + SubtotalsUpTo(items, n - 1)

\* C28: for every booking, each of its items has the price per ticket of its tier
\* in TICKET_TIERS and subtotal = price per ticket * quantity, and the booking's
\* total amount is the sum of the subtotals of its items.
BookingAmountsAddUp ==
    /\ \A i \in DOMAIN booking_items :
          /\ booking_items[i].price_per_ticket = TICKET_TIERS[booking_items[i].tier].price
          /\ booking_items[i].subtotal
                = booking_items[i].price_per_ticket * booking_items[i].quantity
    /\ \A j \in DOMAIN bookings :
          LET items == ItemsOf(bookings[j])
          IN  bookings[j].total_amount = SubtotalsUpTo(items, Len(items))
    /\ BookingSucceeded =>
          /\ ret.booking.totalAmount = bookings[Len(bookings)].total_amount
          /\ \A i \in DOMAIN ret.booking.items :
                ret.booking.items[i].subtotal
                  = TICKET_TIERS[ret.booking.items[i].tier].price
                    * ret.booking.items[i].quantity

\* C28's case: a booking of two tiers with more than one ticket of each is stored
BookingOfTwoTiersStored ==
    \E j \in DOMAIN bookings :
        /\ Len(ItemsOf(bookings[j])) = 2
        /\ ItemsOf(bookings[j])[1].tier # ItemsOf(bookings[j])[2].tier
        /\ ItemsOf(bookings[j])[1].quantity > 1
        /\ ItemsOf(bookings[j])[2].quantity > 1

\* the result lists a hold that is in the table with the same id and expiry
ReportedHoldsStored ==
    \A j \in DOMAIN ret.holds :
        \E h \in holds :
            /\ h.id = ret.holds[j].id
            /\ h.expires_at = ret.holds[j].expiresAt

\* processHeartbeat has just answered from one of its two extending branches
HeartbeatExtended ==
    Returned("processHeartbeat") /\ ret.success /\ ~ReportsInactivity

\* C23: whichever of cleanupExpiredHolds and a createOrUpdateHolds or
\* processHeartbeat call runs first, a hold the call reports as granted or extended
\* is in the table with the reported expiry when the call returns, and the sweep
\* never deletes a hold whose expiry is in the future.
SweepSparesExtendedHolds ==
    /\ Returned("cleanupExpiredHolds") =>
          /\ holds \subseteq before.holds
          /\ \A h \in before.holds : ~Expired(h, now) => h \in holds
    /\ Returned("createOrUpdateHolds") => ReportedHoldsStored
    /\ HeartbeatExtended => ReportedHoldsStored

\* C23's case: a sweep that deleted a hold has met a hold that had run out and
\* was extended in the same instant
SweepMetHoldJustExtended ==
    /\ Returned("cleanupExpiredHolds")
    /\ ret.changes > 0
    /\ \E h \in before.holds :
          /\ h.last_activity_at = toISOString(now)
          /\ getTime(h.created_at) + holdDurationMin <= now
          /\ ~Expired(h, now)

\* the tables other than holds are as they were when the call began
OnlyHoldsMayDiffer ==
    /\ inventory = before.inventory
    /\ bookings = before.bookings
    /\ booking_items = before.booking_items
    /\ nextHoldId = before.nextHoldId

\* C25: releaseHolds deletes every hold of the session for the concert, expired or
\* not, and nothing else: the holds of other sessions, the holds of the session
\* for other concerts, the inventory and the bookings are as they were;
\* releaseAllHolds does the same across all concerts; a repetition of either
\* changes nothing, and both return when there is nothing to delete.
ReleaseDeletesTheSessionsHoldsOnly ==
    /\ Returned("releaseHolds") =>
          /\ OnlyHoldsMayDiffer
          /\ holds \subseteq before.holds
          /\ \A h \in before.holds :
                h \in holds <=>
                    ~(h.session_id = call.sessionId /\ h.concert_id = call.concertId)
          /\ releaseHolds(holds, call.sessionId, call.concertId) = holds
    /\ Returned("releaseAllHolds") =>
          /\ OnlyHoldsMayDiffer
          /\ holds \subseteq before.holds
          /\ \A h \in before.holds : h \in holds <=> h.session_id # call.sessionId
          /\ releaseAllHolds(holds, call.sessionId) = holds

\* C25's case: releaseHolds for a concert has returned while the session held
\* tickets of another concert, some of them run out, and another session held some
ReleasedBesideOtherConcert ==
    /\ Returned("releaseHolds")
    /\ \E h \in before.holds :
          /\ h.session_id = call.sessionId
          /\ h.concert_id # call.concertId
          /\ Expired(h, now)
    /\ OthersRows(before.holds) # {}

\* C29: after a processHeartbeat that took an extending branch (tab hidden, or tab
\* visible and active) every hold of the session for the concert has the same
\* expiresAt, the expiry the call returned.
HeartbeatMovesHoldsTogether ==
    HeartbeatExtended =>
        /\ \A h \in SessionRows(holds) : h.expires_at = ret.expiresAt
        /\ \A j \in DOMAIN ret.holds : ret.holds[j].expiresAt = ret.expiresAt
        /\ Len(ret.holds) = Cardinality(SessionRows(holds))

\* C29's case: an extending heartbeat has met two holds of different expiry
HeartbeatMetTwoExpiries ==
    /\ HeartbeatExtended
    /\ \E h \in SessionRows(before.holds) : \E g \in SessionRows(before.holds) :
          h.expires_at # g.expires_at

\* C30: processHeartbeat never changes the quantity, tier, id or createdAt of a
\* hold, never adds or removes a hold and never touches the inventory or the
\* bookings; with the tab visible and the last activity longer ago than the
\* inactivity timeout it changes nothing at all.
HeartbeatWritesExpiryOnly ==
    Returned("processHeartbeat") =>
        /\ OnlyHoldsMayDiffer
        /\ WithoutTimestamps(holds) = WithoutTimestamps(before.holds)
        /\ Cardinality(holds) = Cardinality(before.holds)
        /\ OthersRows(holds) = OthersRows(before.holds)
        /\ ReportsInactivity => NothingChanged

\* C30's case: a heartbeat reporting inactivity has been answered for a session
\* with a hold that has not expired
InactivityReportedOnLiveHold ==
    /\ Returned("processHeartbeat")
    /\ ReportsInactivity
    /\ ret.success
    /\ LiveRows # {}

\* the cleanup job has just swept, at startup or on a tick of its timer
JobSwept(outcome) ==
    /\ pc = "returned"
    /\ call.op \in {"startHoldCleanupJob", "setInterval callback"}
    /\ call.cleanupExpiredHolds = outcome

\* C22: an error that cleanupExpiredHolds throws in a sweep of the job, the first one
\* at startup included, is caught and logged, reaches no caller, and leaves the job
\* running for its later ticks.
SweepErrorsAreCaught ==
    JobSwept("throws") =>
        /\ uncaught = NoError
        /\ console = "Error in hold cleanup job:"
        /\ Listening

\* C24: getInventory reports for every tier of the concert the tickets held by
\* holds that have not expired, whatever their session, and what is neither sold nor
\* held as available, and it writes nothing.
InventoryCountsNonExpiredHolds ==
    Returned("getInventory") =>
        /\ NothingChanged
        /\ {ret.inventory[i].tier : i \in DOMAIN ret.inventory}
              = {k[2] : k \in {x \in DOMAIN inventory : x[1] = call.concertId}}
        /\ \A i \in DOMAIN ret.inventory :
              LET entry == ret.inventory[i]
                  row == inventory[<<call.concertId, entry.tier>>]
              IN  /\ entry.totalQuantity = row.total_quantity
                  /\ entry.soldQuantity = row.sold_quantity
                  /\ entry.heldQuantity
                        = NonExpiredQuantity(holds, call.concertId, entry.tier, now)
                  /\ entry.availableQuantity
                        = entry.totalQuantity - entry.soldQuantity - entry.heldQuantity

\* C26: the started job sweeps at once and on every tick, and a sweep leaves no
\* hold whose expiry has passed: such a hold is gone by the next tick at the latest.
JobSweepsEveryExpiredHold ==
    JobSwept("returns") => \A h \in holds : ~Expired(h, now)

\* the concerts whose holds or bookings the call has changed
AffectedConcerts ==
    {h.concert_id : h \in (holds \ before.holds) \cup (before.holds \ holds)}
        \cup {bookings[i].concert_id : i \in DOMAIN bookings \ DOMAIN before.bookings}

\* C27: once an operation has changed the holds or created a booking, every
\* listener of the concert it affected has been sent an availability message that
\* carries the inventory as getInventory now computes it.
MutationsAreBroadcast ==
    pc = "returned" =>
        \A client \in clients :
            client.concertId \in AffectedConcerts =>
                /\ written[client.res].type = "availability"
                /\ written[client.res].concertId = client.concertId
                /\ written[client.res].inventory
                      = getInventory(inventory, holds, client.concertId, now)

\* C31: every stored hold has a quantity above 0, whatever calls of
\* createOrUpdateHolds with quantities of 0 or more came before: a selection of
\* quantity 0 deletes the hold and stores nothing.
StoredHoldsArePositive == \A h \in holds : h.quantity > 0

\* C31's case: a selection of quantity 0 has just removed the caller's hold of the tier
ZeroSelectionDeletedHold ==
    /\ Returned("createOrUpdateHolds")
    /\ \E i \in DOMAIN call.selections :
          /\ call.selections[i].quantity = 0
          /\ CallerRows(before.holds, call.selections[i].tier) # {}
          /\ CallerRows(holds, call.selections[i].tier) = {}

\* C32: there is never more than one cleanup timer, and it is the one the job
\* knows: a start while the job runs changes nothing, a stop leaves no timer that
\* could tick, and a start while the job is stopped sets exactly one.
AtMostOneCleanupTimer ==
    /\ timers = (IF cleanupInterval = NoInterval THEN 0 ELSE 1)
    /\ Returned("startHoldCleanupJob") =>
          /\ timers = 1
          /\ call.wasRunning => (NothingChanged /\ call.cleanupExpiredHolds = "not called")
    /\ Returned("stopHoldCleanupJob") => timers = 0

\* C32's case: startHoldCleanupJob has been called while the job was running
StartedWhileRunning == Returned("startHoldCleanupJob") /\ call.wasRunning

\* C33: a hold that has expired stays expired: neither createOrUpdateHolds nor
\* processHeartbeat leaves a hold that was expired when the call began with an
\* expiry in the future, and a tier granted to a caller whose hold of it had
\* expired fits, with its whole quantity, into what the non-expired holds leave.
ExpiryIsFinal ==
    (pc = "returned" /\ call.op \in {"createOrUpdateHolds", "processHeartbeat"}) =>
        /\ \A h \in holds : \A b \in before.holds :
              (h.id = b.id /\ Expired(b, now)) => Expired(h, now)
        /\ call.op = "createOrUpdateHolds" =>
              \A i \in DOMAIN call.selections :
                  LET selection == call.selections[i]
                      row == before.inventory[<<call.concertId, selection.tier>>]
                  IN  (/\ NamedOnce(selection.tier)
                       /\ selection.tier \in HoldsTiers
                       /\ \E b \in CallerRows(before.holds, selection.tier) :
                             Expired(b, now))
                      => selection.quantity
                            <= row.total_quantity - row.sold_quantity
                               - NonExpiredQuantity(before.holds, call.concertId,
                                                    selection.tier, now)

\* C34: a successful processBooking raises what is sold of a tier by no more than
\* the quantity of the caller's non-expired hold of that tier, also when the
\* selections name a tier more than once.
SoldWithinTheHold ==
    BookingSucceeded =>
        \A tier \in TicketTier :
            inventory[<<call.concertId, tier>>].sold_quantity
              - before.inventory[<<call.concertId, tier>>].sold_quantity
            <= SumQuantity({h \in CallerRows(before.holds, tier) : ~Expired(h, now)})

\* the booking an item belongs to
BookingOf(item) ==
    bookings[CHOOSE i \in DOMAIN bookings : bookings[i].id = item.booking_id]

\* the tickets of a concert's tier in the first n booking items
RECURSIVE ItemQuantityUpTo(_, _, _)
ItemQuantityUpTo(concertId, tier, n) ==
    IF n = 0 THEN 0
    ELSE (IF booking_items[n].tier = tier
             /\ BookingOf(booking_items[n]).concert_id = concertId
          THEN booking_items[n].quantity ELSE 0)
         + ItemQuantityUpTo(concertId, tier, n - 1)

\* C35: in every state, what is sold of a concert's tier is what the seed set plus
\* the quantities of all booking items of that tier in bookings of that concert.
SoldMatchesBookingItems ==
    \A key \in DOMAIN inventory :
        inventory[key].sold_quantity
          = SeedInventory[key].sold_quantity
            + ItemQuantityUpTo(key[1], key[2], Len(booking_items))

\* C35's case: a booking with two items of one tier has been stored
SameTierBoughtTwice ==
    /\ BookingSucceeded
    /\ \E i, j \in DOMAIN booking_items :
          i # j /\ booking_items[i].tier = booking_items[j].tier

\* C39: every booking has an item, every item has a quantity above 0, and a
\* processBooking call whose selections are none or all of quantity 0 stores no
\* booking and leaves the holds alone.
BookingsHaveItems ==
    /\ \A i \in DOMAIN bookings : Len(ItemsOf(bookings[i])) >= 1
    /\ \A i \in DOMAIN booking_items : booking_items[i].quantity > 0
    /\ (Returned("processBooking") /\ NonZero(call.selections) = <<>>) =>
          (bookings = before.bookings /\ holds = before.holds)

\* the tickets of the given tiers in the first n items of a booking
RECURSIVE BookedUpTo(_, _, _)
BookedUpTo(items, tiers, n) ==
    IF n = 0 THEN 0
    ELSE (IF items[n].tier \in tiers THEN items[n].quantity ELSE 0)
         + BookedUpTo(items, tiers, n - 1)

\* C36: in every state the holds of a session for a concert are at most
\* MAX_TICKETS_PER_ORDER tickets, at most MAX_TICKETS_PER_TIER of one tier, and
\* so is every booking.
CapsBoundHoldsAndBookings ==
    /\ \A s \in SessionIds : \A c \in {h.concert_id : h \in holds} :
          LET rows == {h \in holds : h.session_id = s /\ h.concert_id = c}
          IN  /\ SumQuantity(rows) <= MAX_TICKETS_PER_ORDER
              /\ \A tier \in TicketTier :
                    SumQuantity({h \in rows : h.tier = tier}) <= MAX_TICKETS_PER_TIER
    /\ \A i \in DOMAIN bookings :
          LET items == ItemsOf(bookings[i])
          IN  /\ BookedUpTo(items, TicketTier, Len(items)) <= MAX_TICKETS_PER_ORDER
              /\ \A tier \in TicketTier :
                    BookedUpTo(items, {tier}, Len(items)) <= MAX_TICKETS_PER_TIER

\* C37: after a checkout that succeeded the caller holds, for the concert, every
\* tier the request selected with a quantity above 0, with that quantity, and
\* no other tier.
CheckoutHoldsAreTheSelections ==
    (Returned("checkout") /\ ret.status = 200) =>
        \A tier \in TicketTier :
            CallerQuantity(holds, tier) = Purchased(call.selections, tier)

\* C38: a payment that succeeded has booked, of every tier, what the caller's
\* non-expired holds of the concert kept when the request came in.
PaymentSellsTheActiveHolds ==
    (Returned("payment") /\ ret.status = 200) =>
        LET items == ItemsOf(bookings[Len(bookings)])
        IN  \A tier \in TicketTier :
                BookedUpTo(items, {tier}, Len(items))
                  = SumQuantity({h \in CallerRows(before.holds, tier) : ~Expired(h, now)})

====
